---- MODULE Spec2Model ----
(***************************************************************************)
(* Zone placement for dynamically provisioned volumes                      *)
(* (openhouse2017/util-after.go): the PVC selector validator and           *)
(* extractors, the ZonesConf resolver with its caches,                     *)
(* ChooseZoneForVolume, and the volume recycler with the goroutine of      *)
(* realRecyclerClient.WatchPod.                                            *)
(*                                                                         *)
(* Strings that the code inspects byte by byte (PVC names, the zones       *)
(* StorageClass parameter) are sequences of one-character strings.  Zone   *)
(* and region names are plain strings.  A sets.String is a set; a nil set  *)
(* and an empty set are both {}.  32-bit unsigned values are pairs         *)
(* <<hi, lo>> of 16-bit halves.                                            *)
(***************************************************************************)
EXTENDS Integers, Sequences, FiniteSets, TLC

VARIABLES
    \* ---- ZonesConf fields
    PVC,                      \* the selector part of z.PVC
    injected,                 \* what z.GetAllZones and z.ZoneToRegion do
    isSCZoneConfigured,
    isSCZonesConfigured,
    gotAllAvailableZones,
    allAvailableZones,
    resultingZones,
    isRegionToZonesMapValid,
    regionToZonesMap,
    \* ---- history: the zones of the last SetZone/SetZones call that returned
    \* nil, and the names of the calls that have returned nil
    scZones,
    succeeded,
    \* ---- history: the zones parameter of the last call when that was a
    \* SetZones call on an arbitrary string (CallSetZonesAny), the empty
    \* string after any other call
    zonesParam,
    \* ---- history: how often the last call invoked the injected GetAllZones
    \* and ZoneToRegion
    getAllZonesCalls,
    zoneToRegionCalls,
    \* ---- history: a ZoneToRegion failure has aborted a build of the
    \* regionToZonesMap; the region the last regionToZones call was given
    abortedBuild,
    lastRegion,
    \* ---- the last call and what it returned
    lastOp,
    retZones,
    retErr,
    retEmpty,
    \* ---- two calls of ChooseZoneForVolume: the zone sets, each in the order
    \* in which ranging over the set visits it, the PVC names, and the results
    zones1,
    zones2,
    pvcName1,
    pvcName2,
    chosen1,
    chosen2,
    \* ---- one run of internalRecycleVolumeByWatchingPodUntilCompletion: its
    \* arguments, where it is, the calls it has made on the recyclerClient,
    \* the last event it read from podCh and how many it has read, and what
    \* it returned
    pvName,
    podName,
    pc,
    clientCalls,
    stopChannel,
    event,
    eventsRead,
    recycleErr,
    \* ---- realRecyclerClient.WatchPod: the two watches, the channel the
    \* goroutine forwards their events on, where the goroutine is, the event
    \* it is sending, and how many events the watches have delivered
    podWatch,
    eventWatch,
    eventCh,
    goroutine,
    sending,
    delivered

zvars == <<PVC, injected, isSCZoneConfigured, isSCZonesConfigured, gotAllAvailableZones,
           allAvailableZones, resultingZones, isRegionToZonesMapValid,
           regionToZonesMap, scZones, succeeded, zonesParam, getAllZonesCalls,
           zoneToRegionCalls, abortedBuild, lastRegion, lastOp, retZones,
           retErr, retEmpty>>

cvars == <<zones1, zones2, pvcName1, pvcName2, chosen1, chosen2>>

wvars == <<podWatch, eventWatch, eventCh, goroutine, sending, delivered>>

rvars == <<pvName, podName, pc, clientCalls, stopChannel, event, eventsRead,
           recycleErr, wvars>>

vars == <<zvars, cvars, rvars>>

(***************************************************************************)
(* Label keys and selector operators                                       *)
(***************************************************************************)
LabelZoneFailureDomain == "failure-domain.beta.kubernetes.io/zone"
LabelZoneRegion == "failure-domain.beta.kubernetes.io/region"
LabelSelectorOpIn == "In"
LabelSelectorOpNotIn == "NotIn"
LabelSelectorOpExists == "Exists"

allowedKeys == {LabelZoneFailureDomain, LabelZoneRegion}
allowedOperators == {LabelSelectorOpIn, LabelSelectorOpNotIn}

(***************************************************************************)
(* Errors.  kind says which fmt.Errorf (or injected function) produced the *)
(* error; arg is the key, operator or zone its message quotes.             *)
(***************************************************************************)
Err(kind, arg) == [kind |-> kind, arg |-> arg]
NoErr == Err("nil", "")

ErrConflict == Err("both zone and zones", "")
ErrParse == Err("empty zone in list", "")
ErrLabelKey(k) == Err("key not permitted in matchLabels", k)
ErrExprKey(k) == Err("key not permitted in matchExpressions", k)
ErrOperator(op) == Err("operator not permitted", op)
ErrNoValues(k) == Err("no values", k)
ErrGetAllZones == Err("GetAllZones failed", "")
ErrZoneToRegion(zone) == Err("failed to convert zone to a region", zone)
ErrNoZone == Err("could not find availability zone", "")
\* the lookup misses of getPVCMatchLabel and getPVCMatchExpression
ErrMissingMatchLabels == Err("missing selector.matchLabels", "")
ErrLabelNotFound(key) == Err("key not found in matchLabels", key)
ErrMissingMatchExpressions == Err("missing selector.matchExpressions", "")
ErrNoMatchExpressions == Err("matchExpressions are missing", "")
ErrExprNotFound(key) == Err("operator for key not found in matchExpressions", key)

(***************************************************************************)
(* The cluster the injected functions describe                             *)
(***************************************************************************)
Zones == {"a", "b", "c", "d"}
Regions == {"r1", "r2", "r3"}

\* ZoneToRegion when it succeeds; no zone lies in region r3
ZoneToRegion(zone) == IF zone \in {"a", "b"} THEN "r1" ELSE "r2"

\* what GetAllZones returns when it succeeds; zone d is not available
CloudZones == {"a", "b", "c"}

(***************************************************************************)
(* Selectors.  A selector is [isNil, matchLabels, matchExpressions];       *)
(* matchLabels is a function from its keys to values, matchExpressions a   *)
(* sequence of [key, operator, values].                                    *)
(***************************************************************************)
Expr(k, op, vals) == [key |-> k, operator |-> op, values |-> vals]
NoLabels == [k \in {} |-> ""]
Selector(labels, exprs) ==
    [isNil |-> FALSE, matchLabels |-> labels, matchExpressions |-> exprs]
NilSelector == [isNil |-> TRUE, matchLabels |-> NoLabels, matchExpressions |-> <<>>]

\* the largest number of matchExpressions entries of a selector
MaxExprs == 2

ExprPool ==
    { Expr(LabelZoneFailureDomain, LabelSelectorOpIn, {"a", "b"}),
      Expr(LabelZoneFailureDomain, LabelSelectorOpIn, {"b", "c"}),
      Expr(LabelZoneFailureDomain, LabelSelectorOpNotIn, {"b"}),
      Expr(LabelZoneRegion, LabelSelectorOpIn, {"r1", "r3"}),
      Expr(LabelZoneRegion, LabelSelectorOpNotIn, {"r2"}),
      Expr(LabelZoneFailureDomain, LabelSelectorOpExists, {"a"}),
      Expr("foo", LabelSelectorOpIn, {"a"}) }

LabelPool ==
    { NoLabels,
      (LabelZoneFailureDomain :> "a"),
      (LabelZoneRegion :> "r1"),
      (LabelZoneFailureDomain :> "c") @@ (LabelZoneRegion :> "r2"),
      ("foo" :> "bar") @@ ("baz" :> "a") @@ (LabelZoneFailureDomain :> "a") }

ExprLists == UNION { [1..n -> ExprPool] : n \in 0..MaxExprs }

Selectors ==
    {NilSelector} \cup { Selector(l, e) : l \in LabelPool, e \in ExprLists }

(***************************************************************************)
(* validatePVCSelector.  Ranging over the matchLabels map visits its keys  *)
(* in no fixed order, so with several keys that are not allowed any of     *)
(* them may be the one reported: the operator yields the set of possible   *)
(* (empty, err) results.                                                   *)
(***************************************************************************)
\* mutant: an expression without values is accepted
ExprErr_ValuesUnchecked(expr) ==
    IF expr.key \notin allowedKeys THEN ErrExprKey(expr.key)
    ELSE IF expr.operator \notin allowedOperators THEN ErrOperator(expr.operator)
    ELSE NoErr

ExprErr(expr) ==
    IF expr.key \notin allowedKeys THEN ErrExprKey(expr.key)
    ELSE IF expr.operator \notin allowedOperators THEN ErrOperator(expr.operator)
    ELSE IF Cardinality(expr.values) < 1 THEN ErrNoValues(expr.key)
    ELSE NoErr

RECURSIVE FirstExprErr(_, _)
FirstExprErr(exprs, i) ==
    IF i > Len(exprs) THEN NoErr
    ELSE IF ExprErr(exprs[i]) # NoErr THEN ExprErr(exprs[i])
    ELSE FirstExprErr(exprs, i + 1)

\* mutant: empty as soon as one of matchLabels, matchExpressions is empty
validatePVCSelector_EmptyIfEitherEmpty(pvc) ==
    IF pvc.isNil THEN {[empty |-> TRUE, err |-> NoErr]}
    ELSE IF Len(pvc.matchExpressions) < 1 \/ Cardinality(DOMAIN pvc.matchLabels) < 1
    THEN {[empty |-> TRUE, err |-> NoErr]}
    ELSE LET bad == {l \in DOMAIN pvc.matchLabels : l \notin allowedKeys}
         IN  IF bad # {}
             THEN {[empty |-> FALSE, err |-> ErrLabelKey(l)] : l \in bad}
             ELSE {[empty |-> FALSE, err |-> FirstExprErr(pvc.matchExpressions, 1)]}

\* mutant: the matchLabels keys are not checked
validatePVCSelector_LabelsUnchecked(pvc) ==
    IF pvc.isNil THEN {[empty |-> TRUE, err |-> NoErr]}
    ELSE IF Len(pvc.matchExpressions) < 1 /\ Cardinality(DOMAIN pvc.matchLabels) < 1
    THEN {[empty |-> TRUE, err |-> NoErr]}
    ELSE {[empty |-> FALSE, err |-> FirstExprErr(pvc.matchExpressions, 1)]}

validatePVCSelector(pvc) ==
    IF pvc.isNil THEN {[empty |-> TRUE, err |-> NoErr]}
    ELSE IF Len(pvc.matchExpressions) < 1 /\ Cardinality(DOMAIN pvc.matchLabels) < 1
    THEN {[empty |-> TRUE, err |-> NoErr]}
    ELSE LET bad == {l \in DOMAIN pvc.matchLabels : l \notin allowedKeys}
         IN  IF bad # {}
             THEN {[empty |-> FALSE, err |-> ErrLabelKey(l)] : l \in bad}
             ELSE {[empty |-> FALSE, err |-> FirstExprErr(pvc.matchExpressions, 1)]}

(***************************************************************************)
(* getPVCMatchLabel, getPVCMatchExpression: the error is the lookup miss    *)
(***************************************************************************)
getPVCMatchLabel(pvc, key) ==
    IF pvc.isNil THEN [value |-> "", err |-> ErrMissingMatchLabels]
    ELSE IF key \in DOMAIN pvc.matchLabels
    THEN [value |-> pvc.matchLabels[key], err |-> NoErr]
    ELSE [value |-> "", err |-> ErrLabelNotFound(key)]

RECURSIVE MatchingSets(_, _, _, _)
MatchingSets(exprs, key, operator, i) ==
    IF i > Len(exprs) THEN <<>>
    ELSE IF exprs[i].key = key /\ exprs[i].operator = operator
            /\ Cardinality(exprs[i].values) > 0
    THEN <<exprs[i].values>> \o MatchingSets(exprs, key, operator, i + 1)
    ELSE MatchingSets(exprs, key, operator, i + 1)

getPVCMatchExpression(pvc, key, operator) ==
    IF pvc.isNil THEN [sets |-> <<>>, err |-> ErrMissingMatchExpressions]
    ELSE IF Len(pvc.matchExpressions) < 1
    THEN [sets |-> <<>>, err |-> ErrNoMatchExpressions]
    ELSE LET ret == MatchingSets(pvc.matchExpressions, key, operator, 1)
         IN  IF Len(ret) = 0 THEN [sets |-> <<>>, err |-> ErrExprNotFound(key)]
             ELSE [sets |-> ret, err |-> NoErr]

(***************************************************************************)
(* zonesToSet: strings.Split on ",", strings.TrimSpace on every token.     *)
(* The zones parameter is a sequence of characters; a trimmed token        *)
(* becomes the zone name made of its characters.                           *)
(***************************************************************************)
\* the white space strings.TrimSpace removes
IsSpace(c) == c \in {" ", "\t"}

\* the string a slice of the parameter is
RECURSIVE ZoneName(_)
ZoneName(t) == IF t = <<>> THEN "" ELSE Head(t) \o ZoneName(Tail(t))

RECURSIVE Split(_)
Split(s) ==
    IF s = <<>> THEN << <<>> >>
    ELSE LET rest == Split(Tail(s))
         IN  IF Head(s) = "," THEN << <<>> >> \o rest
             ELSE << <<Head(s)>> \o rest[1] >> \o Tail(rest)

RECURSIVE TrimLeft(_)
TrimLeft(t) == IF t # <<>> /\ IsSpace(Head(t)) THEN TrimLeft(Tail(t)) ELSE t

RECURSIVE TrimRight(_)
TrimRight(t) ==
    IF t # <<>> /\ IsSpace(t[Len(t)]) THEN TrimRight(SubSeq(t, 1, Len(t) - 1)) ELSE t

TrimSpace(t) == TrimRight(TrimLeft(t))

\* mutant: an empty token is left out instead of rejected
zonesToSet_SkipsEmptyZones(zonesString) ==
    LET zonesSlice == Split(zonesString)
    IN  [set |-> {ZoneName(TrimSpace(zonesSlice[i])) : i \in 1..Len(zonesSlice)}
                     \ {""},
         err |-> NoErr]

zonesToSet(zonesString) ==
    LET zonesSlice == Split(zonesString)
    IN  IF \E i \in 1..Len(zonesSlice) : TrimSpace(zonesSlice[i]) = <<>>
        THEN [set |-> {}, err |-> ErrParse]
        ELSE [set |-> {ZoneName(TrimSpace(zonesSlice[i])) : i \in 1..Len(zonesSlice)},
              err |-> NoErr]

\* the zones parameter SetZones is called with
CsvStrings ==
    { <<"a", ",", "d">>, <<" ", "d", " ">>, <<"a", ",", " ", ",", "d">> }

\* the zone parameter SetZone is called with
ZoneArgs == {"a"}

(***************************************************************************)
(* ZonesConf.  The methods are operators on the record z of the fields.    *)
(***************************************************************************)
Z == [isSCZoneConfigured |-> isSCZoneConfigured,
      isSCZonesConfigured |-> isSCZonesConfigured,
      gotAllAvailableZones |-> gotAllAvailableZones,
      allAvailableZones |-> allAvailableZones,
      resultingZones |-> resultingZones,
      isRegionToZonesMapValid |-> isRegionToZonesMapValid,
      regionToZonesMap |-> regionToZonesMap,
      getAllZonesCalls |-> 0,
      zoneToRegionCalls |-> 0]

NilMap == [r \in {} |-> {}]

\* regionToZonesMap[region], the nil set for a region that is no key
MapGet(m, region) == IF region \in DOMAIN m THEN m[region] ELSE {}

\* mutant: Insert replaced by an assignment, a region keeps its last zone
GroupByRegion_OneZoneEach(zones) ==
    [r \in {ZoneToRegion(zone) : zone \in zones} |->
        {CHOOSE zone \in zones : ZoneToRegion(zone) = r}]

\* the map the loop of calculateRegionToZonesMap has built from `zones`
GroupByRegion(zones) ==
    [r \in {ZoneToRegion(zone) : zone \in zones} |->
        {zone \in zones : ZoneToRegion(zone) = r}]

\* One call's answers of the injected functions.
\* getAllZonesFails: GetAllZones returns an error (else it returns CloudZones).
\* failZone: ZoneToRegion returns an error for this zone ("" for none);
\* before: the zones the range loop visited before it reached failZone.
\* A call in which GetAllZones fails never reaches ZoneToRegion, and an
\* answer is drawn only where the call can consult it.
Answer(f, zone, b) == [getAllZonesFails |-> f, failZone |-> zone, before |-> b]

\* The injected functions.  Unreliable: each call of GetAllZones and of
\* ZoneToRegion may fail or succeed.  Fixed(f, zs): GetAllZones fails at every
\* call (f) or at none, ZoneToRegion fails for the zones zs at every call and
\* for no other zone.
Unreliable == [deterministic |-> FALSE, getAllZonesFails |-> FALSE, failZones |-> {}]
Fixed(f, zs) == [deterministic |-> TRUE, getAllZonesFails |-> f, failZones |-> zs]

\* the answers of fixed functions: the range loop stops at the first zone of
\* failZones it visits
FixedAnswers ==
    IF injected.getAllZonesFails THEN {Answer(TRUE, "", {})}
    ELSE IF injected.failZones = {} THEN {Answer(FALSE, "", {})}
    ELSE UNION { { Answer(FALSE, zone, b) :
                     b \in SUBSET (CloudZones \ injected.failZones) } :
                 zone \in injected.failZones }

Answers(z) ==
    IF injected.deterministic THEN FixedAnswers
    ELSE {Answer(FALSE, "", {})}
         \cup (IF z.gotAllAvailableZones THEN {} ELSE {Answer(TRUE, "", {})})
         \cup (IF z.isRegionToZonesMapValid THEN {}
               ELSE UNION { { Answer(FALSE, zone, b) :
                                b \in SUBSET (CloudZones \ {zone}) } :
                            zone \in CloudZones })

\* mutant: the result is marked as cached before the error is looked at
getAllAvailableZones_CachesFailure(z, env) ==
    IF z.gotAllAvailableZones
    THEN [z |-> z, zones |-> z.allAvailableZones, err |-> NoErr]
    ELSE IF env.getAllZonesFails
    THEN [z |-> [z EXCEPT !.allAvailableZones = {}, !.gotAllAvailableZones = TRUE,
                          !.getAllZonesCalls = @ + 1],
          zones |-> {}, err |-> ErrGetAllZones]
    ELSE [z |-> [z EXCEPT !.allAvailableZones = CloudZones,
                          !.gotAllAvailableZones = TRUE,
                          !.getAllZonesCalls = @ + 1],
          zones |-> CloudZones, err |-> NoErr]

\* mutant: a successful answer is not marked as cached
getAllAvailableZones_NeverCached(z, env) ==
    IF z.gotAllAvailableZones
    THEN [z |-> z, zones |-> z.allAvailableZones, err |-> NoErr]
    ELSE IF env.getAllZonesFails
    THEN [z |-> [z EXCEPT !.allAvailableZones = {}, !.getAllZonesCalls = @ + 1],
          zones |-> {}, err |-> ErrGetAllZones]
    ELSE [z |-> [z EXCEPT !.allAvailableZones = CloudZones,
                          !.getAllZonesCalls = @ + 1],
          zones |-> CloudZones, err |-> NoErr]

getAllAvailableZones(z, env) ==
    IF z.gotAllAvailableZones
    THEN [z |-> z, zones |-> z.allAvailableZones, err |-> NoErr]
    ELSE IF env.getAllZonesFails
    THEN [z |-> [z EXCEPT !.allAvailableZones = {}, !.getAllZonesCalls = @ + 1],
          zones |-> {}, err |-> ErrGetAllZones]
    ELSE [z |-> [z EXCEPT !.allAvailableZones = CloudZones,
                          !.gotAllAvailableZones = TRUE,
                          !.getAllZonesCalls = @ + 1],
          zones |-> CloudZones, err |-> NoErr]

\* mutant: the map is marked valid before the loop over the zones
calculateRegionToZonesMap_ValidBeforeLoop(z, env) ==
    IF z.isRegionToZonesMapValid THEN [z |-> z, err |-> NoErr]
    ELSE
    LET z1 == [z EXCEPT !.regionToZonesMap = NilMap]
        got == IF ~z1.gotAllAvailableZones
               THEN getAllAvailableZones(z1, env)
               ELSE [z |-> z1, zones |-> z1.allAvailableZones, err |-> NoErr]
        z2 == [got.z EXCEPT !.allAvailableZones = got.zones]
    IN  IF got.err # NoErr THEN [z |-> z2, err |-> got.err]
        ELSE IF env.failZone \in z2.allAvailableZones
        THEN [z |-> [z2 EXCEPT !.regionToZonesMap =
                        GroupByRegion((z2.allAvailableZones \cap env.before)
                                          \ {env.failZone}),
                               !.zoneToRegionCalls =
                        @ + Cardinality((z2.allAvailableZones \cap env.before)
                                            \ {env.failZone}) + 1,
                               !.isRegionToZonesMapValid = TRUE],
              err |-> ErrZoneToRegion(env.failZone)]
        ELSE [z |-> [z2 EXCEPT !.regionToZonesMap =
                                   GroupByRegion(z2.allAvailableZones),
                               !.zoneToRegionCalls =
                                   @ + Cardinality(z2.allAvailableZones),
                               !.isRegionToZonesMapValid = TRUE],
              err |-> NoErr]

calculateRegionToZonesMap(z, env) ==
    IF z.isRegionToZonesMapValid THEN [z |-> z, err |-> NoErr]
    ELSE
    LET z1 == [z EXCEPT !.regionToZonesMap = NilMap]
        got == IF ~z1.gotAllAvailableZones
               THEN getAllAvailableZones(z1, env)
               ELSE [z |-> z1, zones |-> z1.allAvailableZones, err |-> NoErr]
        z2 == [got.z EXCEPT !.allAvailableZones = got.zones]
    IN  IF got.err # NoErr THEN [z |-> z2, err |-> got.err]
        ELSE IF env.failZone \in z2.allAvailableZones
        THEN [z |-> [z2 EXCEPT !.regionToZonesMap =
                        GroupByRegion((z2.allAvailableZones \cap env.before)
                                          \ {env.failZone}),
                               !.zoneToRegionCalls =
                        @ + Cardinality((z2.allAvailableZones \cap env.before)
                                            \ {env.failZone}) + 1],
              err |-> ErrZoneToRegion(env.failZone)]
        ELSE [z |-> [z2 EXCEPT !.regionToZonesMap =
                                   GroupByRegion(z2.allAvailableZones),
                               !.zoneToRegionCalls =
                                   @ + Cardinality(z2.allAvailableZones),
                               !.isRegionToZonesMapValid = TRUE],
              err |-> NoErr]

\* mutant: the map is calculated anew on every call
regionToZones_Recalculates(z, region, env) ==
    LET c == calculateRegionToZonesMap([z EXCEPT !.isRegionToZonesMapValid = FALSE], env)
    IN  IF c.err # NoErr THEN [z |-> c.z, zones |-> {}, err |-> c.err]
        ELSE [z |-> c.z, zones |-> MapGet(c.z.regionToZonesMap, region),
              err |-> NoErr]

regionToZones(z, region, env) ==
    LET c == IF ~z.isRegionToZonesMapValid
             THEN calculateRegionToZonesMap(z, env)
             ELSE [z |-> z, err |-> NoErr]
    IN  IF c.err # NoErr THEN [z |-> c.z, zones |-> {}, err |-> c.err]
        ELSE [z |-> c.z, zones |-> MapGet(c.z.regionToZonesMap, region),
              err |-> NoErr]

SetZone(z, zone) ==
    IF z.isSCZonesConfigured THEN [z |-> z, err |-> ErrConflict]
    ELSE [z |-> [z EXCEPT !.resultingZones = {zone}, !.isSCZoneConfigured = TRUE],
          err |-> NoErr]

\* mutant: the zone parameter is not looked at
SetZones_NoConflictCheck(z, zones) ==
    LET parsed == zonesToSet(zones)
        z1 == [z EXCEPT !.resultingZones = parsed.set]
    IN  IF parsed.err # NoErr THEN [z |-> z1, err |-> parsed.err]
        ELSE [z |-> [z1 EXCEPT !.isSCZonesConfigured = TRUE], err |-> NoErr]

SetZones(z, zones) ==
    IF z.isSCZoneConfigured THEN [z |-> z, err |-> ErrConflict]
    ELSE LET parsed == zonesToSet(zones)
             z1 == [z EXCEPT !.resultingZones = parsed.set]
         IN  IF parsed.err # NoErr THEN [z |-> z1, err |-> parsed.err]
             ELSE [z |-> [z1 EXCEPT !.isSCZonesConfigured = TRUE], err |-> NoErr]

(***************************************************************************)
(* GetConfZones.  The six constraint passes, in the order of the code.     *)
(***************************************************************************)
\* mutant: only the last of the sets is intersected with
IntersectEach_LastOnly(w, sets, i) ==
    IF Len(sets) = 0 THEN w ELSE w \cap sets[Len(sets)]

RECURSIVE IntersectEach(_, _, _)
IntersectEach(w, sets, i) ==
    IF i > Len(sets) THEN w ELSE IntersectEach(w \cap sets[i], sets, i + 1)

RECURSIVE DifferenceEach(_, _, _)
DifferenceEach(w, sets, i) ==
    IF i > Len(sets) THEN w ELSE DifferenceEach(w \ sets[i], sets, i + 1)

\* summedZonesForASetOfRegions of one expression
SummedZones(m, regionSet) == UNION {MapGet(m, region) : region \in regionSet}

SummedZonesEach(m, regionSets) ==
    [i \in 1..Len(regionSets) |-> SummedZones(m, regionSets[i])]

MatchLabelZone(z, pvc) ==
    LET l == getPVCMatchLabel(pvc, LabelZoneFailureDomain)
    IN  IF l.err = NoErr THEN [z EXCEPT !.resultingZones = @ \cap {l.value}] ELSE z

\* mutant: the error of getPVCMatchLabel is returned
MatchLabelRegion_SurfacesMiss(z, pvc, env) ==
    LET l == getPVCMatchLabel(pvc, LabelZoneRegion)
        r == regionToZones(z, l.value, env)
    IN  IF l.err # NoErr THEN [z |-> z, err |-> l.err]
        ELSE IF r.err # NoErr THEN [z |-> r.z, err |-> r.err]
        ELSE [z |-> [r.z EXCEPT !.resultingZones = @ \cap r.zones], err |-> NoErr]

MatchLabelRegion(z, pvc, env) ==
    LET l == getPVCMatchLabel(pvc, LabelZoneRegion)
        r == regionToZones(z, l.value, env)
    IN  IF l.err # NoErr THEN [z |-> z, err |-> NoErr]
        ELSE IF r.err # NoErr THEN [z |-> r.z, err |-> r.err]
        ELSE [z |-> [r.z EXCEPT !.resultingZones = @ \cap r.zones], err |-> NoErr]

MatchExpressionZoneIn(z, pvc) ==
    LET e == getPVCMatchExpression(pvc, LabelZoneFailureDomain, LabelSelectorOpIn)
    IN  IF e.err = NoErr THEN [z EXCEPT !.resultingZones = IntersectEach(@, e.sets, 1)] ELSE z

MatchExpressionRegionIn(z, pvc, env) ==
    LET e == getPVCMatchExpression(pvc, LabelZoneRegion, LabelSelectorOpIn)
        c == IF ~z.isRegionToZonesMapValid
             THEN calculateRegionToZonesMap(z, env)
             ELSE [z |-> z, err |-> NoErr]
    IN  IF e.err # NoErr THEN [z |-> z, err |-> NoErr]
        ELSE IF c.err # NoErr THEN c
        ELSE [z |-> [c.z EXCEPT !.resultingZones =
                        IntersectEach(@, SummedZonesEach(c.z.regionToZonesMap, e.sets), 1)],
              err |-> NoErr]

\* mutant: the NotIn expressions on the zone are not applied
MatchExpressionZoneNotIn_Skipped(z, pvc) == z

MatchExpressionZoneNotIn(z, pvc) ==
    LET e == getPVCMatchExpression(pvc, LabelZoneFailureDomain, LabelSelectorOpNotIn)
    IN  IF e.err = NoErr THEN [z EXCEPT !.resultingZones = DifferenceEach(@, e.sets, 1)] ELSE z

MatchExpressionRegionNotIn(z, pvc, env) ==
    LET e == getPVCMatchExpression(pvc, LabelZoneRegion, LabelSelectorOpNotIn)
        c == IF ~z.isRegionToZonesMapValid
             THEN calculateRegionToZonesMap(z, env)
             ELSE [z |-> z, err |-> NoErr]
    IN  IF e.err # NoErr THEN [z |-> z, err |-> NoErr]
        ELSE IF c.err # NoErr THEN c
        ELSE [z |-> [c.z EXCEPT !.resultingZones =
                        DifferenceEach(@, SummedZonesEach(c.z.regionToZonesMap, e.sets), 1)],
              err |-> NoErr]

Return(z, zones, err) == [z |-> z, zones |-> zones, err |-> err]

\* mutant: the resulting set is returned without looking at its size
CheckNotEmpty_AnySize(s) ==
    IF s.err # NoErr THEN Return(s.z, {}, s.err)
    ELSE Return(s.z, s.z.resultingZones, NoErr)

\* lines 669-673, s the outcome of the NotIn passes
CheckNotEmpty(s) ==
    IF s.err # NoErr THEN Return(s.z, {}, s.err)
    ELSE IF Cardinality(s.z.resultingZones) < 1 THEN Return(s.z, {}, ErrNoZone)
    ELSE Return(s.z, s.z.resultingZones, NoErr)

\* lines 649-673, s the outcome of the In passes
MatchNotIn(s, pvc, env) ==
    IF s.err # NoErr THEN Return(s.z, {}, s.err)
    ELSE CheckNotEmpty(MatchExpressionRegionNotIn(MatchExpressionZoneNotIn(s.z, pvc),
                                                  pvc, env))

\* lines 629-673, s the outcome of the matchLabels passes
MatchIn(s, pvc, env) ==
    IF s.err # NoErr THEN Return(s.z, {}, s.err)
    ELSE MatchNotIn(MatchExpressionRegionIn(MatchExpressionZoneIn(s.z, pvc), pvc, env),
                    pvc, env)

\* lines 611-673, s the outcome of lines 606-610 and v the result of
\* validatePVCSelector(pvc)
Validate(s, pvc, env, v) ==
    IF s.err # NoErr THEN Return(s.z, {}, s.err)
    ELSE IF v.err # NoErr THEN Return(s.z, {}, v.err)
    ELSE IF v.empty THEN Return(s.z, s.z.resultingZones, NoErr)
    ELSE MatchIn(MatchLabelRegion(MatchLabelZone(s.z, pvc), pvc, env), pvc, env)

\* z.resultingZones, err = z.getAllAvailableZones()
AssignResultingZones(got) ==
    [z |-> [got.z EXCEPT !.resultingZones = got.zones], err |-> got.err]

GetConfZones(z, pvc, env, v) ==
    Validate(IF ~z.isSCZoneConfigured /\ ~z.isSCZonesConfigured
             THEN AssignResultingZones(getAllAvailableZones(z, env))
             ELSE [z |-> z, err |-> NoErr],
             pvc, env, v)

(***************************************************************************)
(* The calls on one ZonesConf                                              *)
(***************************************************************************)
Store(z) ==
    /\ isSCZoneConfigured' = z.isSCZoneConfigured
    /\ isSCZonesConfigured' = z.isSCZonesConfigured
    /\ gotAllAvailableZones' = z.gotAllAvailableZones
    /\ allAvailableZones' = z.allAvailableZones
    /\ resultingZones' = z.resultingZones
    /\ isRegionToZonesMapValid' = z.isRegionToZonesMapValid
    /\ regionToZonesMap' = z.regionToZonesMap
    /\ getAllZonesCalls' = z.getAllZonesCalls
    /\ zoneToRegionCalls' = z.zoneToRegionCalls

NewZonesConf ==
    /\ isSCZoneConfigured = FALSE
    /\ isSCZonesConfigured = FALSE
    /\ gotAllAvailableZones = FALSE
    /\ allAvailableZones = {}
    /\ resultingZones = {}
    /\ isRegionToZonesMapValid = FALSE
    /\ regionToZonesMap = NilMap
    /\ scZones = {}
    /\ succeeded = {}
    /\ zonesParam = <<>>
    /\ getAllZonesCalls = 0
    /\ zoneToRegionCalls = 0
    /\ abortedBuild = FALSE
    /\ lastRegion = ""
    /\ lastOp = "none"
    /\ retZones = {}
    /\ retErr = NoErr
    /\ retEmpty = FALSE

NoChoice == [done |-> FALSE]

NoEvent == [object |-> "none", type |-> "", phase |-> "", message |-> ""]

\* realRecyclerClient.WatchPod has not been called
NoWatch ==
    /\ podWatch = "none"
    /\ eventWatch = "none"
    /\ eventCh = "none"
    /\ goroutine = "none"
    /\ sending = NoEvent
    /\ delivered = 0

\* internalRecycleVolumeByWatchingPodUntilCompletion has not been called
RecyclerIdle ==
    /\ pvName = ""
    /\ podName = ""
    /\ pc = "idle"
    /\ clientCalls = <<>>
    /\ stopChannel = "none"
    /\ event = NoEvent
    /\ eventsRead = 0
    /\ recycleErr = NoErr
    /\ NoWatch

\* ChooseZoneForVolume has not been given anything
ChooserIdle ==
    /\ zones1 = <<>>
    /\ zones2 = <<>>
    /\ pvcName1 = <<>>
    /\ pvcName2 = <<>>
    /\ chosen1 = NoChoice
    /\ chosen2 = NoChoice

Init ==
    /\ PVC \in Selectors
    /\ injected = Unreliable
    /\ NewZonesConf
    /\ ChooserIdle
    /\ RecyclerIdle

\* history: the call ended in a ZoneToRegion failure
Aborted(err) ==
    abortedBuild' = (abortedBuild \/ \E zone \in Zones : err = ErrZoneToRegion(zone))

CallSetZone ==
    \E zone \in ZoneArgs :
        LET r == SetZone(Z, zone)
        IN  /\ Store(r.z)
            /\ scZones' = IF r.err = NoErr THEN {zone} ELSE scZones
            /\ succeeded' = IF r.err = NoErr THEN succeeded \cup {"SetZone"} ELSE succeeded
            /\ lastOp' = "SetZone"
            /\ retErr' = r.err
            /\ retZones' = {}
            /\ zonesParam' = <<>>
            /\ UNCHANGED <<PVC, injected, abortedBuild, lastRegion, retEmpty, cvars, rvars>>

CallSetZones ==
    \E zones \in CsvStrings :
        LET r == SetZones(Z, zones)
        IN  /\ Store(r.z)
            /\ scZones' = IF r.err = NoErr THEN zonesToSet(zones).set ELSE scZones
            /\ succeeded' = IF r.err = NoErr THEN succeeded \cup {"SetZones"} ELSE succeeded
            /\ zonesParam' = <<>>
            /\ lastOp' = "SetZones"
            /\ retErr' = r.err
            /\ retZones' = {}
            /\ UNCHANGED <<PVC, injected, abortedBuild, lastRegion, retEmpty, cvars, rvars>>

CallGetConfZones ==
    \E env \in Answers(Z), v \in validatePVCSelector(PVC) :
        LET r == GetConfZones(Z, PVC, env, v)
        IN  /\ Store(r.z)
            /\ Aborted(r.err)
            /\ lastOp' = "GetConfZones"
            /\ retErr' = r.err
            /\ retZones' = r.zones
            /\ zonesParam' = <<>>
            /\ UNCHANGED <<PVC, injected, scZones, succeeded, lastRegion, retEmpty, cvars, rvars>>

Next == CallSetZone \/ CallSetZones \/ CallGetConfZones

Spec == Init /\ [][Next]_vars

(***************************************************************************)
(* The caches on their own: the unexported methods called directly, next   *)
(* to the exported ones, on selectors with one constraint; r3 is a region  *)
(* without zones.                                                          *)
(***************************************************************************)
IndexSelectors ==
    { NilSelector,
      Selector((LabelZoneRegion :> "r1"), <<>>),
      Selector(NoLabels, <<Expr(LabelZoneRegion, LabelSelectorOpIn, {"r1", "r3"})>>),
      Selector(NoLabels, <<Expr(LabelZoneRegion, LabelSelectorOpNotIn, {"r2"})>>),
      Selector(NoLabels, <<Expr(LabelZoneFailureDomain, LabelSelectorOpIn, {"a", "b"})>>),
      Selector(NoLabels, <<Expr(LabelZoneRegion, LabelSelectorOpIn, {"r3"})>>),
      Selector(("foo" :> "bar"), <<Expr(LabelZoneRegion, LabelSelectorOpIn, {"r3"})>>) }

InitIndex ==
    /\ PVC \in IndexSelectors
    /\ injected = Unreliable
    /\ NewZonesConf
    /\ ChooserIdle
    /\ RecyclerIdle

CallGetAllAvailableZones ==
    \E env \in Answers(Z) :
        LET r == getAllAvailableZones(Z, env)
        IN  /\ Store(r.z)
            /\ lastOp' = "getAllAvailableZones"
            /\ retErr' = r.err
            /\ retZones' = r.zones
            /\ zonesParam' = <<>>
            /\ UNCHANGED <<PVC, injected, scZones, succeeded, abortedBuild, lastRegion,
                           retEmpty, cvars, rvars>>

CallCalculateRegionToZonesMap ==
    \E env \in Answers(Z) :
        LET r == calculateRegionToZonesMap(Z, env)
        IN  /\ Store(r.z)
            /\ Aborted(r.err)
            /\ lastOp' = "calculateRegionToZonesMap"
            /\ retErr' = r.err
            /\ retZones' = {}
            /\ zonesParam' = <<>>
            /\ UNCHANGED <<PVC, injected, scZones, succeeded, lastRegion, retEmpty, cvars, rvars>>

CallRegionToZones ==
    \E region \in Regions, env \in Answers(Z) :
        LET r == regionToZones(Z, region, env)
        IN  /\ Store(r.z)
            /\ Aborted(r.err)
            /\ lastOp' = "regionToZones"
            /\ lastRegion' = region
            /\ retErr' = r.err
            /\ retZones' = r.zones
            /\ zonesParam' = <<>>
            /\ UNCHANGED <<PVC, injected, scZones, succeeded, retEmpty, cvars, rvars>>

NextIndex ==
    \/ CallGetAllAvailableZones
    \/ CallCalculateRegionToZonesMap
    \/ CallRegionToZones
    \/ CallGetConfZones
    \/ CallSetZone
    \/ CallSetZones

SpecIndex == InitIndex /\ [][NextIndex]_vars

(***************************************************************************)
(* One ZonesConf whose injected functions answer every call alike          *)
(***************************************************************************)
FixedSelectors ==
    IndexSelectors \cup
    { Selector((LabelZoneFailureDomain :> "a"),
               <<Expr(LabelZoneFailureDomain, LabelSelectorOpNotIn, {"b"}),
                 Expr(LabelZoneRegion, LabelSelectorOpIn, {"r1", "r3"})>>),
      Selector(NoLabels,
               <<Expr(LabelZoneFailureDomain, LabelSelectorOpIn, {"a", "b"}),
                 Expr(LabelZoneFailureDomain, LabelSelectorOpIn, {"b", "c"})>>),
      Selector((LabelZoneRegion :> "r1"),
               <<Expr(LabelZoneRegion, LabelSelectorOpNotIn, {"r2"}),
                 Expr(LabelZoneFailureDomain, LabelSelectorOpIn, {"b", "c", "d"}),
                 Expr(LabelZoneFailureDomain, LabelSelectorOpNotIn, {"a"})>>),
      Selector(NoLabels,
               <<Expr(LabelZoneRegion, LabelSelectorOpNotIn, {"r1"}),
                 Expr(LabelZoneFailureDomain, LabelSelectorOpNotIn, {"c"})>>),
      Selector(NoLabels,
               <<Expr("foo", LabelSelectorOpIn, {"a"}),
                 Expr(LabelZoneFailureDomain, LabelSelectorOpExists, {"a"})>>) }

FixedFunctions ==
    { Fixed(FALSE, {}), Fixed(TRUE, {}), Fixed(FALSE, {"c"}), Fixed(FALSE, {"a", "c"}) }

InitFixed ==
    /\ PVC \in FixedSelectors
    /\ injected \in FixedFunctions
    /\ NewZonesConf
    /\ ChooserIdle
    /\ RecyclerIdle

NextFixed == CallGetConfZones \/ CallSetZone \/ CallSetZones

SpecFixed == InitFixed /\ [][NextFixed]_vars

(***************************************************************************)
(* The admin override on its own: SetZones with every short string over    *)
(* zone characters, commas and white space, next to SetZone                *)
(***************************************************************************)
\* the longest zones parameter
MaxZonesLen == 3
ZonesAlphabet == {"a", ",", " ", "\t"}
ZonesStrings == UNION { [1..n -> ZonesAlphabet] : n \in 0..MaxZonesLen }

InitOverride ==
    /\ PVC = NilSelector
    /\ injected = Unreliable
    /\ NewZonesConf
    /\ ChooserIdle
    /\ RecyclerIdle

CallSetZonesAny ==
    \E zones \in ZonesStrings :
        LET r == SetZones(Z, zones)
        IN  /\ Store(r.z)
            /\ scZones' = IF r.err = NoErr THEN zonesToSet(zones).set ELSE scZones
            /\ succeeded' = IF r.err = NoErr THEN succeeded \cup {"SetZones"} ELSE succeeded
            /\ zonesParam' = zones
            /\ lastOp' = "SetZones"
            /\ retErr' = r.err
            /\ retZones' = {}
            /\ UNCHANGED <<PVC, injected, abortedBuild, lastRegion, retEmpty, cvars, rvars>>

NextOverride == CallSetZone \/ CallSetZonesAny

SpecOverride == InitOverride /\ [][NextOverride]_vars

(***************************************************************************)
(* validatePVCSelector on its own, over a wider set of selectors           *)
(***************************************************************************)
ValidatorExprPool ==
    { Expr(k, op, vals) :
        k \in {LabelZoneFailureDomain, LabelZoneRegion, "foo"},
        op \in {LabelSelectorOpIn, LabelSelectorOpNotIn, LabelSelectorOpExists},
        vals \in {{}, {"a"}} }

ValidatorLabelPool == LabelPool \cup {("foo" :> "bar")}

ValidatorSelectors ==
    {NilSelector} \cup
    { Selector(l, e) : l \in ValidatorLabelPool,
                       e \in UNION { [1..n -> ValidatorExprPool] : n \in 0..MaxExprs } }

InitValidate ==
    /\ PVC \in ValidatorSelectors
    /\ injected = Unreliable
    /\ NewZonesConf
    /\ ChooserIdle
    /\ RecyclerIdle

CallValidatePVCSelector ==
    \E v \in validatePVCSelector(PVC) :
        /\ lastOp' = "validatePVCSelector"
        /\ retEmpty' = v.empty
        /\ retErr' = v.err
        /\ UNCHANGED <<PVC, injected, isSCZoneConfigured, isSCZonesConfigured,
                       gotAllAvailableZones, allAvailableZones, resultingZones,
                       isRegionToZonesMapValid, regionToZonesMap, scZones,
                       succeeded, zonesParam, getAllZonesCalls, zoneToRegionCalls,
                       abortedBuild, lastRegion, retZones, cvars, rvars>>

NextValidate == CallValidatePVCSelector

SpecValidate == InitValidate /\ [][NextValidate]_vars

(***************************************************************************)
(* ChooseZoneForVolume.  A PVC name is a sequence of characters; a uint32  *)
(* is <<hi, lo>> with hi, lo in 0..65535, its value hi * 65536 + lo.       *)
(***************************************************************************)
Digits == <<"0", "1", "2", "3", "4", "5", "6", "7", "8", "9">>
IsDigit(c) == \E d \in 1..10 : Digits[d] = c
DigitValue(c) == (CHOOSE d \in 1..10 : Digits[d] = c) - 1

\* the byte of a character
ByteOf(c) ==
    IF IsDigit(c) THEN 48 + DigitValue(c)
    ELSE CASE c = "-" -> 45
           [] c = "a" -> 97
           [] c = "b" -> 98
           [] c = "c" -> 99
           [] c = "d" -> 100

\* strings.LastIndexByte, 0-based, -1 when c does not occur
LastIndexByte(str, c) ==
    IF \E i \in 1..Len(str) : str[i] = c
    THEN (CHOOSE i \in 1..Len(str) :
             str[i] = c /\ \A j \in (i + 1)..Len(str) : str[j] # c) - 1
    ELSE -1

\* strconv.ParseUint(str, 10, 32): an error for the empty string, for a
\* character that is no digit, and for a value above 2^32 - 1
RECURSIVE ParseDigits(_, _, _)
ParseDigits(str, i, acc) ==
    IF i > Len(str) THEN [value |-> acc, ok |-> TRUE]
    ELSE IF ~IsDigit(str[i]) THEN [value |-> <<0, 0>>, ok |-> FALSE]
    ELSE LET lo == acc[2] * 10 + DigitValue(str[i])
             hi == acc[1] * 10 + (lo \div 65536)
         IN  IF hi > 65535 THEN [value |-> <<0, 0>>, ok |-> FALSE]
             ELSE ParseDigits(str, i + 1, <<hi, lo % 65536>>)

ParseUint(str) ==
    IF Len(str) = 0 THEN [value |-> <<0, 0>>, ok |-> FALSE]
    ELSE ParseDigits(str, 1, <<0, 0>>)

\* x + y in uint32
Add32(x, y) ==
    LET lo == x[2] + y[2]
    IN  <<(x[1] + y[1] + (lo \div 65536)) % 65536, lo % 65536>>

\* x % n in uint32, for 0 < n <= 65536
Mod32(x, n) == ((x[1] % n) * (65536 % n) + (x[2] % n)) % n

\* bitwise exclusive or of two bytes
RECURSIVE Xor8(_, _, _)
Xor8(x, y, bits) ==
    IF bits = 0 THEN 0
    ELSE 2 * Xor8(x \div 2, y \div 2, bits - 1) + ((x + y) % 2)

\* hash/fnv New32: FNV-1 with offset32 = 2166136261 and prime32 = 16777619
\* = 2^24 + 403; every byte multiplies by the prime, then xors the byte in
RECURSIVE Sum32(_, _, _)
Sum32(str, i, hash) ==
    IF i > Len(str) THEN hash
    ELSE LET p == hash[2] * 403
             hi == (hash[1] * 403 + (p \div 65536) + (hash[2] % 256) * 256) % 65536
             lo == p % 65536
         IN  Sum32(str, i + 1,
                   <<hi, (lo \div 256) * 256 + Xor8(lo % 256, ByteOf(str[i]), 8)>>)

Fnv32(str) == Sum32(str, 1, <<33052, 40389>>)

\* the statefulset id of a name that ends in -<integer>
statefulsetID(pvcName) ==
    LET lastDash == LastIndexByte(pvcName, "-")
    IN  IF lastDash = -1 THEN [value |-> <<0, 0>>, ok |-> FALSE]
        ELSE ParseUint(SubSeq(pvcName, lastDash + 2, Len(pvcName)))

\* mutant: the statefulset id is not added
index_AlwaysZero(pvcName) == <<0, 0>>

\* the offset added to the hash
index(pvcName) ==
    IF statefulsetID(pvcName).ok THEN statefulsetID(pvcName).value ELSE <<0, 0>>

\* mutant: the whole text before the id is hashed
hashString_WholePrefix(pvcName) ==
    IF ~statefulsetID(pvcName).ok THEN pvcName
    ELSE SubSeq(pvcName, 1, LastIndexByte(pvcName, "-"))

\* the part of the name that is hashed
hashString(pvcName) ==
    IF ~statefulsetID(pvcName).ok THEN pvcName
    ELSE LET prefix == SubSeq(pvcName, 1, LastIndexByte(pvcName, "-"))
             lastDash == LastIndexByte(prefix, "-")
         IN  IF lastDash # -1 THEN SubSeq(prefix, lastDash + 2, Len(prefix))
             ELSE prefix

\* sets.String.List: the elements in sorted order, whatever the order
\* `zones` in which ranging over the set visits them
RECURSIVE SortedList(_)
SortedList(set) ==
    IF set = {} THEN <<>>
    ELSE LET least == CHOOSE x \in set : \A y \in set : ByteOf(x) <= ByteOf(y)
         IN  <<least>> \o SortedList(set \ {least})

\* mutant: the elements in the order ranging over the set visits them
List_VisitOrder(zones) == zones

List(zones) == SortedList({zones[i] : i \in 1..Len(zones)})

\* the call did not return: the run-time panic of the % by len(zoneSlice) = 0
Panicked == [done |-> FALSE, panic |-> "integer divide by zero"]

\* mutant: the sum is reduced modulo len(zoneSlice) + 1, the zone is "" when
\* the index is past the end of zoneSlice
ChooseZoneForVolume_ModLenPlusOne(zones, pvcName, rnd) ==
    LET hash == IF pvcName = <<>> THEN rnd ELSE Fnv32(hashString(pvcName))
        offset == IF pvcName = <<>> THEN <<0, 0>> ELSE index(pvcName)
        zoneSlice == List(zones)
        at == Mod32(Add32(hash, offset), Len(zoneSlice) + 1)
    IN  IF Len(zoneSlice) = 0 THEN Panicked
        ELSE [done |-> TRUE,
              zone |-> IF at < Len(zoneSlice) THEN zoneSlice[at + 1] ELSE "",
              at |-> at, hash |-> hash, index |-> offset]

\* rnd is the value of rand.Uint32(), used for an empty name only
ChooseZoneForVolume(zones, pvcName, rnd) ==
    LET hash == IF pvcName = <<>> THEN rnd ELSE Fnv32(hashString(pvcName))
        offset == IF pvcName = <<>> THEN <<0, 0>> ELSE index(pvcName)
        zoneSlice == List(zones)
        at == Mod32(Add32(hash, offset), Len(zoneSlice))
    IN  IF Len(zoneSlice) = 0 THEN Panicked
        ELSE [done |-> TRUE, zone |-> zoneSlice[at + 1], at |-> at, hash |-> hash,
              index |-> offset]

\* ---- the names and zone sets ChooseZoneForVolume is called with
\* the longest text before the ordinal suffix of a name
MaxPrefixLen == 3
NamePrefixes == UNION { [1..n -> {"a", "-"}] : n \in 0..MaxPrefixLen }

\* 2128831034 = 2^32 - 1 - Fnv32(""), 4294967295 = 2^32 - 1
Ordinals ==
    { <<"0">>, <<"1">>, <<"2">>,
      <<"2", "1", "2", "8", "8", "3", "1", "0", "3", "4">>,
      <<"2", "1", "2", "8", "8", "3", "1", "0", "3", "5">>,
      <<"4", "2", "9", "4", "9", "6", "7", "2", "9", "5">>,
      <<"4", "2", "9", "4", "9", "6", "7", "2", "9", "6">> }
NameSuffixes == {<<>>} \cup { <<"-">> \o o : o \in Ordinals }

VisitOrders(set) ==
    { f \in [1..Cardinality(set) -> set] : \A i, j \in DOMAIN f : f[i] = f[j] => i = j }
ZoneSetPool == {{"a", "b", "c"}, {"a", "b"}, {}}
RandPool == {<<0, 0>>, <<0, 1>>, <<65535, 65535>>}

\* Two names that share the text before the ordinal suffix or share the
\* suffix; the same zone set twice, the second time in any order.
InitChoose ==
    /\ PVC = NilSelector
    /\ injected = Unreliable
    /\ NewZonesConf
    /\ \E set \in ZoneSetPool :
          /\ zones1 = SortedList(set)
          /\ zones2 \in VisitOrders(set)
    /\ \E p1, p2 \in NamePrefixes, s1, s2 \in NameSuffixes :
          /\ p1 = p2 \/ s1 = s2
          /\ pvcName1 = p1 \o s1
          /\ pvcName2 = p2 \o s2
    /\ chosen1 = NoChoice
    /\ chosen2 = NoChoice
    /\ RecyclerIdle

CallChooseZoneForVolume1 ==
    /\ chosen1 = NoChoice
    /\ \E rnd \in RandPool : chosen1' = ChooseZoneForVolume(zones1, pvcName1, rnd)
    /\ UNCHANGED <<zvars, rvars, zones1, zones2, pvcName1, pvcName2, chosen2>>

CallChooseZoneForVolume2 ==
    /\ chosen1 # NoChoice
    /\ chosen2 = NoChoice
    /\ \E rnd \in RandPool : chosen2' = ChooseZoneForVolume(zones2, pvcName2, rnd)
    /\ UNCHANGED <<zvars, rvars, zones1, zones2, pvcName1, pvcName2, chosen1>>

NextChoose == CallChooseZoneForVolume1 \/ CallChooseZoneForVolume2

SpecChoose == InitChoose /\ [][NextChoose]_vars

(***************************************************************************)
(* internalRecycleVolumeByWatchingPodUntilCompletion.  The recyclerClient  *)
(* is the environment: WatchPod and CreatePod answer with any of their     *)
(* outcomes and podCh delivers any event.  A step that returns runs the    *)
(* deferred calls, last registered first.                                  *)
(***************************************************************************)
ErrWatchPod == Err("WatchPod failed", "")
ErrCreatePod == Err("unexpected error creating recycler pod", "")
ErrPodFailed(message) == Err("pod failed", message)
ErrPodFailedUnknown == Err("pod failed, pod.Status.Message unknown.", "")
ErrPodDeleted == Err("recycler pod was deleted", "")
ErrWatcherFailed == Err("recycler pod watcher failed", "")

\* pod.Name = "recycler-for-" + pvName
RecyclerPodName(name) == "recycler-for-" \o name

PvNames == {"pv1", "pv2"}
\* the names the caller's pod comes with
PodNames == {"", "pod"}

\* what recyclerClient.WatchPod and recyclerClient.CreatePod may answer
WatchPodAnswers == {"nil", "error"}
CreatePodAnswers == {"nil", "AlreadyExists", "error"}

\* what podCh may deliver: a *v1.Pod, a *v1.Event or an object of neither
\* type, with any watch.EventType; phase and message are those of a pod
Event(object, type, phase, message) ==
    [object |-> object, type |-> type, phase |-> phase, message |-> message]
EventTypes == {"ADDED", "MODIFIED", "DELETED", "ERROR"}
PodEvents ==
    { Event("Pod", type, phase, message) :
        type \in EventTypes,
        phase \in {"Running", "Succeeded", "Failed"},
        message \in {"", "oom"} }
Events ==
    PodEvents
    \cup { Event("Event", type, "", "killing") : type \in EventTypes }
    \cup { Event("nil", "", "", "") }

\* the most events one run reads from podCh
MaxEvents == 2

\* a call on the recyclerClient: the method, the pod name (or the message)
\* it was given and the error it answered with
ClientCall(op, name, answer) == [op |-> op, name |-> name, answer |-> answer]
DeletePodAnswers == {"nil", "error"}

\* lines 81-88: what the function does with CreatePod's error
\* mutant: an already existing pod is an error like any other
OnCreatePod_ExistsIsError(answer) ==
    IF answer # "nil" THEN [return |-> TRUE, err |-> ErrCreatePod]
    ELSE [return |-> FALSE, err |-> NoErr]

OnCreatePod(answer) ==
    IF answer # "nil" /\ answer # "AlreadyExists"
    THEN [return |-> TRUE, err |-> ErrCreatePod]
    ELSE [return |-> FALSE, err |-> NoErr]

\* mutant: a v1.Event is forwarded whatever the type of the watch event
OnEvent_ForwardsEveryEvent(e) ==
    IF e.object = "Pod"
    THEN IF e.type \in {"ADDED", "MODIFIED"}
         THEN IF e.phase = "Succeeded"
              THEN [return |-> TRUE, err |-> NoErr, forward |-> FALSE]
              ELSE IF e.phase = "Failed"
              THEN [return |-> TRUE,
                    err |-> IF e.message # "" THEN ErrPodFailed(e.message)
                            ELSE ErrPodFailedUnknown,
                    forward |-> FALSE]
              ELSE [return |-> FALSE, err |-> NoErr, forward |-> FALSE]
         ELSE IF e.type = "DELETED"
         THEN [return |-> TRUE, err |-> ErrPodDeleted, forward |-> FALSE]
         ELSE IF e.type = "ERROR"
         THEN [return |-> TRUE, err |-> ErrWatcherFailed, forward |-> FALSE]
         ELSE [return |-> FALSE, err |-> NoErr, forward |-> FALSE]
    ELSE IF e.object = "Event"
    THEN [return |-> FALSE, err |-> NoErr, forward |-> TRUE]
    ELSE [return |-> FALSE, err |-> NoErr, forward |-> FALSE]

\* lines 99-133: one pass of the loop over the event it read
OnEvent(e) ==
    IF e.object = "Pod"
    THEN IF e.type \in {"ADDED", "MODIFIED"}
         THEN IF e.phase = "Succeeded"
              THEN [return |-> TRUE, err |-> NoErr, forward |-> FALSE]
              ELSE IF e.phase = "Failed"
              THEN [return |-> TRUE,
                    err |-> IF e.message # "" THEN ErrPodFailed(e.message)
                            ELSE ErrPodFailedUnknown,
                    forward |-> FALSE]
              ELSE [return |-> FALSE, err |-> NoErr, forward |-> FALSE]
         ELSE IF e.type = "DELETED"
         THEN [return |-> TRUE, err |-> ErrPodDeleted, forward |-> FALSE]
         ELSE IF e.type = "ERROR"
         THEN [return |-> TRUE, err |-> ErrWatcherFailed, forward |-> FALSE]
         ELSE [return |-> FALSE, err |-> NoErr, forward |-> FALSE]
    ELSE IF e.object = "Event"
    THEN [return |-> FALSE, err |-> NoErr, forward |-> e.type = "ADDED"]
    ELSE [return |-> FALSE, err |-> NoErr, forward |-> FALSE]

InitRecycle ==
    /\ PVC = NilSelector
    /\ injected = Unreliable
    /\ NewZonesConf
    /\ ChooserIdle
    /\ pvName \in PvNames
    /\ podName \in PodNames
    /\ pc = "WatchPod"
    /\ clientCalls = <<>>
    /\ stopChannel = "none"
    /\ event = NoEvent
    /\ eventsRead = 0
    /\ recycleErr = NoErr
    /\ NoWatch

\* lines 64-78
WatchPod ==
    /\ pc = "WatchPod"
    /\ podName' = RecyclerPodName(pvName)
    /\ \E answer \in WatchPodAnswers :
          /\ clientCalls' = Append(clientCalls, ClientCall("WatchPod", podName', answer))
          /\ IF answer # "nil"
             THEN /\ recycleErr' = ErrWatchPod
                  /\ stopChannel' = "closed"
                  /\ pc' = "returned"
             ELSE /\ recycleErr' = recycleErr
                  /\ stopChannel' = "open"
                  /\ pc' = "CreatePod"
    /\ UNCHANGED <<zvars, cvars, pvName, event, eventsRead, wvars>>

\* lines 80-94
CreatePod ==
    /\ pc = "CreatePod"
    /\ \E answer \in CreatePodAnswers :
          LET r == OnCreatePod(answer)
          IN  /\ clientCalls' =
                    Append(clientCalls, ClientCall("CreatePod", podName, answer))
              /\ IF r.return
                 THEN /\ recycleErr' = r.err
                      /\ stopChannel' = "closed"
                      /\ pc' = "returned"
                 ELSE /\ recycleErr' = recycleErr
                      /\ stopChannel' = stopChannel
                      /\ pc' = "podCh"
    /\ UNCHANGED <<zvars, cvars, pvName, podName, event, eventsRead, wvars>>

\* lines 98-134, and the deferred DeletePod and close(stopChannel) when the
\* pass returns
ReceiveEvent ==
    /\ pc = "podCh"
    /\ eventsRead < MaxEvents
    /\ \E e \in Events :
          LET r == OnEvent(e)
          IN  /\ event' = e
              /\ eventsRead' = eventsRead + 1
              /\ IF r.return
                 THEN /\ \E answer \in DeletePodAnswers :
                            clientCalls' =
                                Append(clientCalls,
                                       ClientCall("DeletePod", podName, answer))
                      /\ recycleErr' = r.err
                      /\ stopChannel' = "closed"
                      /\ pc' = "returned"
                 ELSE /\ clientCalls' =
                            IF r.forward
                            THEN Append(clientCalls, ClientCall("Event", e.message, ""))
                            ELSE clientCalls
                      /\ recycleErr' = recycleErr
                      /\ stopChannel' = stopChannel
                      /\ pc' = pc
    /\ UNCHANGED <<zvars, cvars, pvName, podName, wvars>>

NextRecycle == WatchPod \/ CreatePod \/ ReceiveEvent

SpecRecycle == InitRecycle /\ [][NextRecycle]_vars

(***************************************************************************)
(* The same function on a realRecyclerClient.  WatchPod starts a watch on  *)
(* the pod and a watch on its events and a goroutine that forwards what    *)
(* the two deliver on the unbuffered eventCh until stopChannel is closed   *)
(* or a watch ends.  The API server is the environment: a watch delivers   *)
(* any event, at most MaxEvents of them in all, and may end at any time.   *)
(***************************************************************************)
\* what Pods(namespace).Watch and Events(namespace).Watch may answer
WatchAnswers == {"nil", "error"}

\* what the pod watch delivers: the pod, or a Status object with type ERROR
PodWatchEvents == PodEvents \cup {Event("Status", "ERROR", "", "")}
\* what the event watch delivers
EventWatchEvents == { Event("Event", type, "", "killing") : type \in EventTypes }

\* the zero watch.Event a receive from the closed eventCh yields
ZeroEvent == Event("nil", "", "", "")

\* lines 64-78 with WatchPod of lines 179-229
RealWatchPod ==
    /\ pc = "WatchPod"
    /\ podName' = RecyclerPodName(pvName)
    /\ \E podAnswer, eventAnswer \in WatchAnswers :
          IF podAnswer # "nil" \/ eventAnswer # "nil"
          THEN /\ clientCalls' =
                     Append(clientCalls, ClientCall("WatchPod", podName', "error"))
               /\ podWatch' = IF podAnswer = "nil" THEN "stopped" ELSE podWatch
               /\ recycleErr' = ErrWatchPod
               /\ stopChannel' = "closed"
               /\ pc' = "returned"
               /\ UNCHANGED <<eventWatch, eventCh, goroutine>>
          ELSE /\ clientCalls' =
                     Append(clientCalls, ClientCall("WatchPod", podName', "nil"))
               /\ podWatch' = "open"
               /\ eventWatch' = "open"
               /\ eventCh' = "open"
               /\ goroutine' = "select"
               /\ recycleErr' = recycleErr
               /\ stopChannel' = "open"
               /\ pc' = "CreatePod"
    /\ UNCHANGED <<zvars, cvars, pvName, event, eventsRead, sending, delivered>>

\* the API server ends a watch: its result channel is closed
WatchEnds ==
    /\ \/ podWatch = "open" /\ podWatch' = "ended" /\ eventWatch' = eventWatch
       \/ eventWatch = "open" /\ eventWatch' = "ended" /\ podWatch' = podWatch
    /\ UNCHANGED <<zvars, cvars, pvName, podName, pc, clientCalls, stopChannel,
                   event, eventsRead, recycleErr, eventCh, goroutine, sending,
                   delivered>>

\* lines 204-206, 211, 215, 221: the goroutine returns and its deferred calls
\* close eventCh and stop both watches
GoroutineReturns ==
    /\ goroutine = "select"
    /\ stopChannel = "closed" \/ podWatch = "ended" \/ eventWatch = "ended"
    /\ goroutine' = "exited"
    /\ eventCh' = "closed"
    /\ podWatch' = "stopped"
    /\ eventWatch' = "stopped"
    /\ UNCHANGED <<zvars, cvars, pvName, podName, pc, clientCalls, stopChannel,
                   event, eventsRead, recycleErr, sending, delivered>>

\* lines 213, 219: the select takes an event from a watch; the goroutine is
\* then at the send on eventCh of line 217 or 223
GoroutineTakesEvent ==
    /\ goroutine = "select"
    /\ delivered < MaxEvents
    /\ \/ podWatch = "open" /\ sending' \in PodWatchEvents
       \/ eventWatch = "open" /\ sending' \in EventWatchEvents
    /\ delivered' = delivered + 1
    /\ goroutine' = "send"
    /\ UNCHANGED <<zvars, cvars, pvName, podName, pc, clientCalls, stopChannel,
                   event, eventsRead, recycleErr, podWatch, eventWatch, eventCh>>

\* lines 99-133 for the event e read from podCh, and the deferred DeletePod
\* and close(stopChannel) when the pass returns
Received(e) ==
    LET r == OnEvent(e)
    IN  /\ event' = e
        /\ IF r.return
           THEN /\ \E answer \in DeletePodAnswers :
                      clientCalls' =
                          Append(clientCalls, ClientCall("DeletePod", podName, answer))
                /\ recycleErr' = r.err
                /\ stopChannel' = "closed"
                /\ pc' = "returned"
           ELSE /\ clientCalls' =
                      IF r.forward
                      THEN Append(clientCalls, ClientCall("Event", e.message, ""))
                      ELSE clientCalls
                /\ recycleErr' = recycleErr
                /\ stopChannel' = stopChannel
                /\ pc' = pc

\* line 99 meets the send of line 217 or 223
ReceiveSent ==
    /\ pc = "podCh"
    /\ goroutine = "send"
    /\ Received(sending)
    /\ eventsRead' = eventsRead + 1
    /\ goroutine' = "select"
    /\ sending' = NoEvent
    /\ UNCHANGED <<zvars, cvars, pvName, podName, podWatch, eventWatch, eventCh,
                   delivered>>

\* line 99 on the closed eventCh: the receive yields the zero event at once,
\* any number of times; eventsRead counts the events that were sent
ReceiveFromClosed ==
    /\ pc = "podCh"
    /\ eventCh = "closed"
    /\ Received(ZeroEvent)
    /\ UNCHANGED <<zvars, cvars, pvName, podName, eventsRead, wvars>>

NextWatch ==
    \/ RealWatchPod
    \/ CreatePod
    \/ ReceiveSent
    \/ ReceiveFromClosed
    \/ GoroutineTakesEvent
    \/ GoroutineReturns
    \/ WatchEnds

\* Both the function and the goroutine take their next step when they can;
\* nothing obliges a watch to deliver an event or to end.
SpecWatch ==
    /\ InitRecycle
    /\ [][NextWatch]_vars
    /\ WF_vars(RealWatchPod)
    /\ WF_vars(CreatePod)
    /\ WF_vars(ReceiveSent)
    /\ WF_vars(ReceiveFromClosed)
    /\ WF_vars(GoroutineReturns)

(***************************************************************************)
(* Vocabulary of the properties, stated from the selector's meaning and    *)
(* not through the operators above.                                        *)
(***************************************************************************)
Configured == isSCZoneConfigured \/ isSCZonesConfigured

IsEmptySelector(sel) ==
    sel.isNil \/ (DOMAIN sel.matchLabels = {} /\ Len(sel.matchExpressions) = 0)

BadLabelKeys(sel) == {k \in DOMAIN sel.matchLabels : k \notin allowedKeys}
BadKeyExprs(sel) ==
    {i \in 1..Len(sel.matchExpressions) : sel.matchExpressions[i].key \notin allowedKeys}
BadOperatorExprs(sel) ==
    {i \in 1..Len(sel.matchExpressions) :
        sel.matchExpressions[i].operator \notin allowedOperators}
NoValueExprs(sel) ==
    {i \in 1..Len(sel.matchExpressions) : sel.matchExpressions[i].values = {}}
HasBadKey(sel) == BadLabelKeys(sel) # {} \/ BadKeyExprs(sel) # {}
ValidSelector(sel) ==
    /\ BadLabelKeys(sel) = {}
    /\ BadKeyExprs(sel) = {}
    /\ BadOperatorExprs(sel) = {}
    /\ NoValueExprs(sel) = {}

\* the error names a key of the selector that is outside {zone, region}
NamesOffendingKey(err, sel) ==
    \/ \E k \in BadLabelKeys(sel) : err = ErrLabelKey(k)
    \/ \E i \in BadKeyExprs(sel) : err = ErrExprKey(sel.matchExpressions[i].key)

ExternalFailure(err) ==
    err = ErrGetAllZones \/ \E zone \in Zones : err = ErrZoneToRegion(zone)

\* the zones of a region in the index built from all available zones
ZonesOfRegion(region) == {zone \in CloudZones : ZoneToRegion(zone) = region}

\* the selector permits the zone: AND over the labels and expressions, OR
\* over the values of one expression
Permits(sel, zone) ==
    /\ LabelZoneFailureDomain \in DOMAIN sel.matchLabels
          => zone = sel.matchLabels[LabelZoneFailureDomain]
    /\ LabelZoneRegion \in DOMAIN sel.matchLabels
          => zone \in ZonesOfRegion(sel.matchLabels[LabelZoneRegion])
    /\ \A i \in 1..Len(sel.matchExpressions) :
          LET e == sel.matchExpressions[i]
              named == IF e.key = LabelZoneFailureDomain THEN zone \in e.values
                       ELSE \E region \in e.values : zone \in ZonesOfRegion(region)
          IN  IF e.operator = LabelSelectorOpIn THEN named ELSE ~named

\* the starting set: the override the admin configured, else all zones
StartingSet == IF Configured THEN scZones ELSE CloudZones
Eligible == {zone \in StartingSet : Permits(PVC, zone)}

(***************************************************************************)
(* C1: every GetConfZones call that returns no error returns a non-empty   *)
(* zone set, after any sequence of SetZone, SetZones and GetConfZones      *)
(* calls.  Violated: SetZones("a,d"), then SetZones("a, ,d") fails but     *)
(* stores the empty set, then GetConfZones with an empty selector.         *)
(***************************************************************************)
C1_NeverEmptyWithoutError ==
    (lastOp = "GetConfZones" /\ retErr = NoErr) => retZones # {}

C3_ResultIsEligibleSet ==
    (/\ lastOp = "GetConfZones"
     /\ ~IsEmptySelector(PVC)
     /\ ValidSelector(PVC)
     /\ ~ExternalFailure(retErr)
     /\ Eligible # {})
        => (retErr = NoErr /\ retZones = Eligible)

(***************************************************************************)
(* C4 as claimed: a selector with a key outside {zone, region} makes       *)
(* GetConfZones fail with a validation error that names the offending key, *)
(* whatever the override and the injected functions.                       *)
(***************************************************************************)
C4_BadKeyAlwaysNamed ==
    (lastOp = "GetConfZones" /\ HasBadKey(PVC)) => NamesOffendingKey(retErr, PVC)

(***************************************************************************)
(* C4 amended: a selector with a key outside {zone, region} makes          *)
(* GetConfZones fail: with the error of GetAllZones when no override is    *)
(* configured and GetAllZones fails, else with the validation error of the *)
(* first offence: a matchLabels key if one is not allowed, else the first  *)
(* expression that has a key, else an operator, that is not allowed or     *)
(* that has no values.  The message names an offending key except when an  *)
(* earlier expression is rejected for its operator or missing values.      *)
(***************************************************************************)
C4_BadKeyRejected ==
    (lastOp = "GetConfZones" /\ HasBadKey(PVC)) =>
        /\ retErr # NoErr
        /\ retZones = {}
        /\ \/ retErr = ErrGetAllZones /\ ~Configured /\ ~gotAllAvailableZones
           \/ NamesOffendingKey(retErr, PVC)
              /\ (BadLabelKeys(PVC) # {} => retErr.arg \in BadLabelKeys(PVC))
           \/ /\ BadLabelKeys(PVC) = {}
              /\ \E j \in (BadOperatorExprs(PVC) \cup NoValueExprs(PVC)) \ BadKeyExprs(PVC) :
                    /\ \A i \in BadKeyExprs(PVC) : j < i
                    /\ \A i \in BadOperatorExprs(PVC) \cup NoValueExprs(PVC) : j <= i
                    /\ retErr = IF j \in BadOperatorExprs(PVC)
                                THEN ErrOperator(PVC.matchExpressions[j].operator)
                                ELSE ErrNoValues(PVC.matchExpressions[j].key)

C4_Witness ==
    /\ lastOp = "GetConfZones"
    /\ PVC = Selector(NoLabels, <<Expr(LabelZoneFailureDomain, LabelSelectorOpIn, {"a", "b"}),
                                  Expr("foo", LabelSelectorOpIn, {"a"})>>)
    /\ retErr = ErrExprKey("foo")
    /\ isSCZonesConfigured

(***************************************************************************)
(* C5: once SetZone has succeeded every later SetZones call fails with the *)
(* conflict error, once SetZones has succeeded every later SetZone call    *)
(* fails with it, and the two configured flags are never both true.        *)
(***************************************************************************)
C5_OverridesExclusive ==
    /\ ~(isSCZoneConfigured /\ isSCZonesConfigured)
    /\ (lastOp = "SetZones" /\ "SetZone" \in succeeded) => retErr = ErrConflict
    /\ (lastOp = "SetZone" /\ "SetZones" \in succeeded) => retErr = ErrConflict
    /\ succeeded # {"SetZone", "SetZones"}

C5_Witness ==
    /\ lastOp = "SetZones"
    /\ succeeded = {"SetZone"}
    /\ retErr = ErrConflict
    /\ isSCZoneConfigured

\* the errors validatePVCSelector has for the offences of a selector
Offences(sel) ==
    {ErrLabelKey(k) : k \in BadLabelKeys(sel)}
    \cup {ErrExprKey(sel.matchExpressions[i].key) : i \in BadKeyExprs(sel)}
    \cup {ErrOperator(sel.matchExpressions[i].operator) : i \in BadOperatorExprs(sel)}
    \cup {ErrNoValues(sel.matchExpressions[i].key) : i \in NoValueExprs(sel)}

(***************************************************************************)
(* C6: validatePVCSelector returns an error if and only if the selector    *)
(* has a matchLabels key outside {zone, region} or an expression whose key *)
(* is outside {zone, region}, whose operator is outside {In, NotIn} or     *)
(* which has no values; the error is the one of such an offence.           *)
(***************************************************************************)
C6_ErrorIffOffence ==
    lastOp = "validatePVCSelector" =>
        /\ retErr # NoErr <=> ~ValidSelector(PVC)
        /\ retErr # NoErr => retErr \in Offences(PVC)

C6_Witness ==
    /\ lastOp = "validatePVCSelector"
    /\ PVC = Selector(NoLabels, <<Expr(LabelZoneFailureDomain, LabelSelectorOpIn, {})>>)
    /\ retErr = ErrNoValues(LabelZoneFailureDomain)

(***************************************************************************)
(* C7: validatePVCSelector reports empty exactly for a missing selector    *)
(* and for one with zero matchLabels and zero matchExpressions, reports    *)
(* not empty and no error for every other valid selector, and never        *)
(* returns (true, error).                                                  *)
(***************************************************************************)
C7_EmptyFlag ==
    lastOp = "validatePVCSelector" =>
        /\ retEmpty <=> IsEmptySelector(PVC)
        /\ (~IsEmptySelector(PVC) /\ ValidSelector(PVC)) => (~retEmpty /\ retErr = NoErr)
        /\ retErr # NoErr => ~retEmpty

C7_Witness ==
    /\ lastOp = "validatePVCSelector"
    /\ PVC = Selector((LabelZoneFailureDomain :> "a"), <<>>)
    /\ ~retEmpty
    /\ retErr = NoErr

(***************************************************************************)
(* Vocabulary of the ChooseZoneForVolume properties                        *)
(***************************************************************************)
BothChosen == chosen1.done /\ chosen2.done
ZoneSet(zones) == {zones[i] : i \in 1..Len(zones)}
SameZoneSet == ZoneSet(zones1) = ZoneSet(zones2)

\* the position of a zone in the sorted list of the set, from 0
PositionOf(zone, set) == Cardinality({y \in set : ByteOf(y) < ByteOf(zone)})

\* where the last dash of a name is (0: there is none), the text before it
\* and the text after it
DashAt(name) ==
    IF \E i \in 1..Len(name) : name[i] = "-"
    THEN CHOOSE i \in 1..Len(name) : name[i] = "-" /\ \A j \in 1..Len(name) : name[j] = "-" => j <= i
    ELSE 0
Stem(name) == SubSeq(name, 1, DashAt(name) - 1)
OrdinalText(name) == SubSeq(name, DashAt(name) + 1, Len(name))
EndsInOrdinal(name) ==
    /\ DashAt(name) > 0
    /\ OrdinalText(name) # <<>>
    /\ \A i \in 1..Len(OrdinalText(name)) : IsDigit(OrdinalText(name)[i])
\* the ordinal, when it is at most 2^32 - 1
Ordinal(name) == ParseUint(OrdinalText(name))

\* <claim>-<unit>-<ordinal>: the unit is the text between the last two dashes
Unit(name) == SubSeq(Stem(name), DashAt(Stem(name)) + 1, Len(Stem(name)))
HasUnit(name) == EndsInOrdinal(name) /\ DashAt(Stem(name)) > 0 /\ Unit(name) # <<>>

\* the names share the text before the ordinal and end in ordinals k, k + 1
ConsecutiveOrdinals ==
    /\ EndsInOrdinal(pvcName1) /\ EndsInOrdinal(pvcName2)
    /\ Stem(pvcName1) = Stem(pvcName2)
    /\ Ordinal(pvcName1).ok /\ Ordinal(pvcName2).ok
    /\ Ordinal(pvcName1).value # <<65535, 65535>>
    /\ Ordinal(pvcName2).value = Add32(Ordinal(pvcName1).value, <<0, 1>>)

(***************************************************************************)
(* C8 as claimed: two ChooseZoneForVolume calls with equal zone sets and   *)
(* equal names return the same zone, for all names.                        *)
(***************************************************************************)
C8_SameInputsSameZone ==
    (BothChosen /\ SameZoneSet /\ pvcName1 = pvcName2)
        => chosen1.zone = chosen2.zone

(***************************************************************************)
(* C8 amended: two ChooseZoneForVolume calls with equal zone sets and      *)
(* equal non-empty names return the same zone, whatever the order in which *)
(* the sets are visited; for the empty name the zone is drawn with         *)
(* rand.Uint32() and two calls may differ.                                 *)
(***************************************************************************)
C8_SameNamedInputsSameZone ==
    (BothChosen /\ SameZoneSet /\ pvcName1 = pvcName2 /\ pvcName1 # <<>>)
        => chosen1.zone = chosen2.zone

C8_Witness ==
    /\ BothChosen
    /\ SameZoneSet
    /\ zones1 # zones2
    /\ pvcName1 = pvcName2
    /\ pvcName1 = <<"a", "-", "a", "-", "1">>
    /\ chosen1.zone = chosen2.zone

(***************************************************************************)
(* C9 as claimed: for two names that share the prefix and end in           *)
(* consecutive ordinals k and k + 1 the chosen zones' positions in the     *)
(* sorted zone list differ by exactly 1 modulo the number of zones.        *)
(***************************************************************************)
C9_ConsecutiveOrdinalsAdjacent ==
    (BothChosen /\ SameZoneSet /\ ConsecutiveOrdinals)
        => PositionOf(chosen2.zone, ZoneSet(zones2))
             = (PositionOf(chosen1.zone, ZoneSet(zones1)) + 1) % Len(zones1)

(***************************************************************************)
(* C9, what the code does: for two names that share the prefix and end in  *)
(* consecutive ordinals k and k + 1 <= 2^32 - 1, the chosen zones'         *)
(* positions differ by exactly 1 modulo the number of zones, except when   *)
(* hash + k = 2^32 - 1: then the uint32 sum for k + 1 wraps to 0 and the   *)
(* second position is 0 (next to the first only when the number of zones   *)
(* divides 2^32).                                                          *)
(***************************************************************************)
C9_AdjacentUnlessWrap ==
    (BothChosen /\ SameZoneSet /\ ConsecutiveOrdinals)
        => PositionOf(chosen2.zone, ZoneSet(zones2))
             = IF Add32(Fnv32(hashString(pvcName1)), Ordinal(pvcName1).value)
                     = <<65535, 65535>>
               THEN 0
               ELSE (PositionOf(chosen1.zone, ZoneSet(zones1)) + 1) % Len(zones1)

C9_Witness ==
    /\ BothChosen
    /\ ConsecutiveOrdinals
    /\ pvcName1 = <<"a", "-", "a", "-", "1">>
    /\ ZoneSet(zones1) = {"a", "b", "c"}
    /\ PositionOf(chosen2.zone, ZoneSet(zones2))
          = (PositionOf(chosen1.zone, ZoneSet(zones1)) + 1) % Len(zones1)

(***************************************************************************)
(* C10 as claimed: two names <claimA>-<unit>-<ordinal> and                 *)
(* <claimB>-<unit>-<ordinal> with the same dash-free unit and the same     *)
(* ordinal get the same zone.                                              *)
(***************************************************************************)
C10_SameUnitSameZone ==
    (/\ BothChosen /\ SameZoneSet
     /\ HasUnit(pvcName1) /\ HasUnit(pvcName2)
     /\ Unit(pvcName1) = Unit(pvcName2)
     /\ OrdinalText(pvcName1) = OrdinalText(pvcName2))
        => chosen1.zone = chosen2.zone

(***************************************************************************)
(* C10, what the code does: two names <claimA>-<unit>-<ordinal> and        *)
(* <claimB>-<unit>-<ordinal> with the same dash-free unit and the same     *)
(* ordinal get the same zone, provided the ordinal is at most 2^32 - 1; a  *)
(* larger ordinal fails strconv.ParseUint(.., 10, 32) and the whole name   *)
(* is hashed.                                                              *)
(***************************************************************************)
C10_SameUnitSameZone32 ==
    (/\ BothChosen /\ SameZoneSet
     /\ HasUnit(pvcName1) /\ HasUnit(pvcName2)
     /\ Unit(pvcName1) = Unit(pvcName2)
     /\ OrdinalText(pvcName1) = OrdinalText(pvcName2)
     /\ Ordinal(pvcName1).ok)
        => chosen1.zone = chosen2.zone

C10_Witness ==
    /\ BothChosen
    /\ pvcName1 = <<"a", "-", "a", "-", "1">>
    /\ pvcName2 = <<"-", "-", "a", "-", "1">>
    /\ ZoneSet(zones1) = {"a", "b", "c"}
    /\ chosen1.zone = chosen2.zone

(***************************************************************************)
(* Vocabulary of the cache properties                                      *)
(***************************************************************************)
\* what a map holds for a region: the nil set for a region that is no key
SetOfRegion(m, r) == IF r \in DOMAIN m THEN m[r] ELSE {}

(***************************************************************************)
(* C11: once the region-to-zones index is valid, every later step keeps it *)
(* valid and unchanged and invokes ZoneToRegion zero times, and every      *)
(* later regionToZones(region) call returns, without error, the set the    *)
(* index holds for that region.                                            *)
(***************************************************************************)
C11_IndexReused ==
    [][ isRegionToZonesMapValid =>
          /\ isRegionToZonesMapValid'
          /\ regionToZonesMap' = regionToZonesMap
          /\ zoneToRegionCalls' = 0
          /\ lastOp' = "regionToZones" =>
                /\ retErr' = NoErr
                /\ retZones' = SetOfRegion(regionToZonesMap, lastRegion') ]_vars

C11_Witness ==
    /\ isRegionToZonesMapValid
    /\ lastOp = "regionToZones"
    /\ lastRegion = "r1"
    /\ zoneToRegionCalls = 0
    /\ retZones = {"a", "b"}

(***************************************************************************)
(* C12: after GetAllZones has succeeded once no later step invokes it and  *)
(* every later getAllAvailableZones call returns the cached set; before    *)
(* that, every getAllAvailableZones call invokes GetAllZones exactly once, *)
(* and a failing invocation returns the error and leaves                   *)
(* gotAllAvailableZones false.                                             *)
(***************************************************************************)
C12_GetAllZonesUntilSuccess ==
    [][ /\ gotAllAvailableZones =>
              /\ gotAllAvailableZones'
              /\ allAvailableZones' = allAvailableZones
              /\ getAllZonesCalls' = 0
              /\ lastOp' = "getAllAvailableZones" =>
                    (retErr' = NoErr /\ retZones' = allAvailableZones)
        /\ (~gotAllAvailableZones /\ lastOp' = "getAllAvailableZones") =>
              /\ getAllZonesCalls' = 1
              /\ IF retErr' = NoErr
                 THEN /\ gotAllAvailableZones'
                      /\ allAvailableZones' = CloudZones
                      /\ retZones' = CloudZones
                 ELSE /\ retErr' = ErrGetAllZones
                      /\ ~gotAllAvailableZones' ]_vars

C12_Witness ==
    /\ gotAllAvailableZones
    /\ lastOp = "getAllAvailableZones"
    /\ getAllZonesCalls = 0
    /\ retZones = CloudZones
    /\ retErr = NoErr

(***************************************************************************)
(* Vocabulary: the selector has an In expression on the region all of      *)
(* whose regions have no zones                                             *)
(***************************************************************************)
InZonelessRegions(sel) ==
    \E i \in 1..Len(sel.matchExpressions) :
        LET e == sel.matchExpressions[i]
        IN  /\ e.key = LabelZoneRegion
            /\ e.operator = LabelSelectorOpIn
            /\ e.values # {}
            /\ \A region \in e.values : ZonesOfRegion(region) = {}

(***************************************************************************)
(* C13 as claimed: if the selector contains an In expression on the region *)
(* whose regions all have zero zones, GetConfZones fails with the          *)
(* unsatisfiable error for every non-empty starting set.                   *)
(***************************************************************************)
C13_ZonelessRegionUnsatisfiable ==
    (lastOp = "GetConfZones" /\ InZonelessRegions(PVC) /\ StartingSet # {})
        => retErr = ErrNoZone

(***************************************************************************)
(* C13 amended: if the selector contains an In expression on the region    *)
(* whose regions all have zero zones, GetConfZones fails for every         *)
(* non-empty starting set: with the unsatisfiable error when the selector  *)
(* is valid and the injected functions succeed, else with the selector     *)
(* validation error or the injected function's error.                      *)
(***************************************************************************)
C13_ZonelessRegionFails ==
    (lastOp = "GetConfZones" /\ InZonelessRegions(PVC) /\ StartingSet # {})
        => /\ retErr # NoErr
           /\ (ValidSelector(PVC) /\ ~ExternalFailure(retErr)) => retErr = ErrNoZone
           /\ retErr = ErrNoZone => ValidSelector(PVC)

C13_Witness ==
    /\ lastOp = "GetConfZones"
    /\ PVC = Selector(NoLabels, <<Expr(LabelZoneRegion, LabelSelectorOpIn, {"r3"})>>)
    /\ isSCZoneConfigured
    /\ StartingSet = {"a"}
    /\ isRegionToZonesMapValid
    /\ retErr = ErrNoZone

(***************************************************************************)
(* Vocabulary: the errors of the selector validation, of the first offence *)
(* of each sort the selector has                                           *)
(***************************************************************************)
ValidationErrors(sel) ==
    {ErrLabelKey(k) : k \in BadLabelKeys(sel)}
    \cup {ErrExprKey(sel.matchExpressions[i].key) : i \in BadKeyExprs(sel)}
    \cup {ErrOperator(sel.matchExpressions[i].operator) : i \in BadOperatorExprs(sel)}
    \cup {ErrNoValues(sel.matchExpressions[i].key) : i \in NoValueExprs(sel)}

(***************************************************************************)
(* C14: the only errors GetConfZones returns are selector-validation       *)
(* errors of the selector, failures of the injected GetAllZones and        *)
(* ZoneToRegion, and the unsatisfiable error; a label or (key, operator)   *)
(* expression that getPVCMatchLabel/getPVCMatchExpression report missing   *)
(* is never returned.                                                      *)
(***************************************************************************)
C14_OnlyThreeSortsOfError ==
    (lastOp = "GetConfZones" /\ retErr # NoErr)
        => \/ retErr \in ValidationErrors(PVC)
           \/ ExternalFailure(retErr)
           \/ retErr = ErrNoZone

C14_Witness ==
    /\ lastOp = "GetConfZones"
    /\ PVC = Selector((LabelZoneFailureDomain :> "a"), <<>>)
    /\ retErr = NoErr
    /\ retZones = {"a"}

(***************************************************************************)
(* Vocabulary of the recycler properties                                   *)
(***************************************************************************)
CallsOf(op) == {i \in 1..Len(clientCalls) : clientCalls[i].op = op}

\* what a pod event that ends the watch says about the recycling
Verdict(e) ==
    IF e.type = "DELETED" THEN ErrPodDeleted
    ELSE IF e.type = "ERROR" THEN ErrWatcherFailed
    ELSE IF e.phase = "Succeeded" THEN NoErr
    ELSE IF e.message # "" THEN ErrPodFailed(e.message)
    ELSE ErrPodFailedUnknown

(***************************************************************************)
(* C15: when internalRecycleVolumeByWatchingPodUntilCompletion has         *)
(* returned, DeletePod has been called for the recycler pod, whatever      *)
(* WatchPod, CreatePod and the events produced.  Violated: the function    *)
(* returns WatchPod's error, and a CreatePod error other than              *)
(* AlreadyExists, before DeletePod is deferred.                            *)
(***************************************************************************)
C15_DeletePodBeforeReturn ==
    pc = "returned" =>
        \E i \in CallsOf("DeletePod") : clientCalls[i].name = RecyclerPodName(pvName)

(***************************************************************************)
(* C15, what the code does: DeletePod is called, once and as the last      *)
(* call, exactly when the function returns out of the loop over podCh.     *)
(***************************************************************************)
C15_DeletePodAfterWatching ==
    /\ Cardinality(CallsOf("DeletePod")) <= 1
    /\ CallsOf("DeletePod") # {} <=> (pc = "returned" /\ eventsRead > 0)
    /\ \A i \in CallsOf("DeletePod") :
          i = Len(clientCalls) /\ clientCalls[i].name = RecyclerPodName(pvName)

(***************************************************************************)
(* C16: CreatePod is called at most once, for the pod                      *)
(* recycler-for-<pvName> that WatchPod was called for before.  When it     *)
(* answers AlreadyExists (or no error) the function returns only out of    *)
(* the loop over podCh, with what the last event it read says; when it     *)
(* answers any other error the function returns an error for it without    *)
(* reading an event.                                                       *)
(***************************************************************************)
C16_ExistingPodIsWatched ==
    /\ Cardinality(CallsOf("CreatePod")) <= 1
    /\ \A i \in CallsOf("CreatePod") :
          /\ clientCalls[i].name = RecyclerPodName(pvName)
          /\ i = 2
          /\ clientCalls[1] = ClientCall("WatchPod", RecyclerPodName(pvName), "nil")
          /\ IF clientCalls[i].answer \in {"nil", "AlreadyExists"}
             THEN /\ recycleErr # ErrCreatePod
                  /\ pc \in {"podCh", "returned"}
                  /\ pc = "returned" =>
                        /\ eventsRead > 0
                        /\ event.object = "Pod"
                        /\ recycleErr = Verdict(event)
             ELSE /\ pc = "returned"
                  /\ recycleErr = ErrCreatePod
                  /\ eventsRead = 0

C16_Witness ==
    /\ pc = "returned"
    /\ Len(clientCalls) >= 2
    /\ clientCalls[2] = ClientCall("CreatePod", RecyclerPodName("pv1"), "AlreadyExists")
    /\ event.phase = "Succeeded"
    /\ recycleErr = NoErr

(***************************************************************************)
(* Vocabulary: the text ChooseZoneForVolume hashes and the ordinal it adds *)
(* for a non-empty name, and residues of 32-bit values                     *)
(***************************************************************************)
HasParsedOrdinal(name) == EndsInOrdinal(name) /\ Ordinal(name).ok
HashedText(name) == IF HasParsedOrdinal(name) THEN Unit(name) ELSE name
ParsedOrdinal(name) == IF HasParsedOrdinal(name) THEN Ordinal(name).value ELSE <<0, 0>>

\* (hi * 2^16 + lo) mod n
Residue(x, n) == ((x[1] % n) * (65536 % n) + (x[2] % n)) % n

(***************************************************************************)
(* C17: for a non-empty name the position of the chosen zone in the sorted *)
(* zone list is (hash + ordinal) mod n computed over the integers.         *)
(* Violated when hash + ordinal reaches 2^32 and n does not divide 2^32:   *)
(* the sum is taken in uint32 (see C9).                                    *)
(***************************************************************************)
C17_IndexIsIntegerSum ==
    (chosen1.done /\ pvcName1 # <<>>)
        => PositionOf(chosen1.zone, ZoneSet(zones1))
             = (Residue(Fnv32(HashedText(pvcName1)), Len(zones1))
                  + Residue(ParsedOrdinal(pvcName1), Len(zones1))) % Len(zones1)

(***************************************************************************)
(* C17, what the code does: the position is the residue of the uint32 sum  *)
(* (hash + ordinal) mod 2^32.                                              *)
(***************************************************************************)
C17_IndexIsWrappedSum ==
    (chosen1.done /\ pvcName1 # <<>>)
        => PositionOf(chosen1.zone, ZoneSet(zones1))
             = Residue(Add32(Fnv32(HashedText(pvcName1)), ParsedOrdinal(pvcName1)),
                       Len(zones1))

IsGroupingOf(m, zones) ==
    /\ DOMAIN m \subseteq Regions
    /\ \A r \in Regions, zone \in Zones :
          zone \in SetOfRegion(m, r) <=> (zone \in zones /\ ZoneToRegion(zone) = r)
    /\ \A zone \in zones : Cardinality({r \in DOMAIN m : zone \in m[r]}) = 1

ConstrainsRegion(sel) ==
    /\ ~IsEmptySelector(sel)
    /\ \/ LabelZoneRegion \in DOMAIN sel.matchLabels
       \/ \E i \in 1..Len(sel.matchExpressions) :
             sel.matchExpressions[i].key = LabelZoneRegion

(***************************************************************************)
(* C19: whenever isRegionToZonesMapValid is true, regionToZonesMap is      *)
(* exactly the grouping of the cached all-available-zones set by           *)
(* ZoneToRegion, every available zone is in exactly one region's set, and  *)
(* a regionToZones call for a region without zones has returned the empty  *)
(* set and no error.                                                       *)
(***************************************************************************)
C19_IndexIsGrouping ==
    isRegionToZonesMapValid =>
        /\ gotAllAvailableZones
        /\ IsGroupingOf(regionToZonesMap, allAvailableZones)
        /\ (/\ lastOp = "regionToZones"
            /\ \A zone \in allAvailableZones : ZoneToRegion(zone) # lastRegion)
              => (retErr = NoErr /\ retZones = {})

C19_Witness ==
    /\ isRegionToZonesMapValid
    /\ allAvailableZones = {"a", "b", "c"}
    /\ lastOp = "regionToZones"
    /\ lastRegion = "r3"
    /\ retErr = NoErr
    /\ retZones = {}

(***************************************************************************)
(* C20: a step in which GetAllZones or ZoneToRegion fails returns that     *)
(* error and leaves isRegionToZonesMapValid false (calculateRegionToZones- *)
(* Map returns nil exactly when it leaves the index valid); a later step   *)
(* that makes the index valid has looked up every available zone again and *)
(* leaves the complete grouping, whatever the aborted build left in the    *)
(* map; and regionToZones and the region constraints of GetConfZones       *)
(* succeed only on a valid index.                                          *)
(***************************************************************************)
C20_AbortedBuildIsRetried ==
    [][ /\ (~isRegionToZonesMapValid /\ ExternalFailure(retErr'))
              => ~isRegionToZonesMapValid'
        /\ lastOp' = "calculateRegionToZonesMap"
              => \/ retErr' = NoErr /\ isRegionToZonesMapValid'
                 \/ ExternalFailure(retErr') /\ ~isRegionToZonesMapValid'
        /\ (~isRegionToZonesMapValid /\ isRegionToZonesMapValid')
              => /\ retErr' = NoErr \/ retErr' = ErrNoZone
                 /\ zoneToRegionCalls' = Cardinality(CloudZones)
                 /\ allAvailableZones' = CloudZones
                 /\ IsGroupingOf(regionToZonesMap', CloudZones)
        /\ (lastOp' = "regionToZones" /\ retErr' = NoErr)
              => isRegionToZonesMapValid'
        /\ (lastOp' = "GetConfZones" /\ retErr' = NoErr /\ ConstrainsRegion(PVC))
              => isRegionToZonesMapValid' ]_vars

C20_Witness ==
    /\ abortedBuild
    /\ isRegionToZonesMapValid
    /\ zoneToRegionCalls = Cardinality(CloudZones)
    /\ IsGroupingOf(regionToZonesMap, CloudZones)
    /\ retErr = NoErr

(***************************************************************************)
(* Vocabulary: the tokens of a zones parameter, read off the positions of  *)
(* its commas.  A span <<lo, hi>> is two neighbouring separators, the      *)
(* start and the end of the string counting as separators; its text is     *)
(* what lies between them from the first to the last character that is no  *)
(* white space.                                                            *)
(***************************************************************************)
Separators(csv) == {0, Len(csv) + 1} \cup {i \in 1..Len(csv) : csv[i] = ","}

TokenSpans(csv) ==
    { sp \in Separators(csv) \X Separators(csv) :
        /\ sp[1] < sp[2]
        /\ ~\E c \in Separators(csv) : sp[1] < c /\ c < sp[2] }

TokenText(csv, sp) ==
    LET inked == {i \in (sp[1] + 1)..(sp[2] - 1) : csv[i] \notin {" ", "\t"}}
        first == CHOOSE i \in inked : \A j \in inked : i <= j
        last == CHOOSE i \in inked : \A j \in inked : j <= i
    IN  IF inked = {} THEN <<>> ELSE SubSeq(csv, first, last)

TokenTexts(csv) == {TokenText(csv, sp) : sp \in TokenSpans(csv)}

C26_FailedSetterChangesNothing ==
    [][(lastOp' \in {"SetZone", "SetZones"} /\ retErr' # NoErr) =>
          UNCHANGED <<isSCZoneConfigured, isSCZonesConfigured, resultingZones>>]_vars

(***************************************************************************)
(* C26, what the code does: a failed call leaves both flags as they were;  *)
(* resultingZones is as it was after a conflict and empty after a parse    *)
(* error.                                                                  *)
(***************************************************************************)
C26_FailedSetterKeepsFlags ==
    [][(lastOp' \in {"SetZone", "SetZones"} /\ retErr' # NoErr) =>
          /\ UNCHANGED <<isSCZoneConfigured, isSCZonesConfigured>>
          /\ resultingZones' = IF retErr' = ErrParse THEN {} ELSE resultingZones]_vars

(***************************************************************************)
(* C23: for every non-empty zone set and every name, the empty name        *)
(* included, ChooseZoneForVolume returns one zone, which is a member of    *)
(* the set and stands at the computed index of the sorted list, an index   *)
(* within the bounds of the list.  For the empty set it does not return.   *)
(***************************************************************************)
C23_ChosenZoneInSet ==
    \A call \in {<<zones1, chosen1>>, <<zones2, chosen2>>} :
        LET set == ZoneSet(call[1])
            chosen == call[2]
        IN  chosen # NoChoice =>
                IF set = {}
                THEN ~chosen.done
                ELSE /\ chosen.done
                     /\ chosen.zone \in set
                     /\ chosen.at \in 0..(Cardinality(set) - 1)
                     /\ PositionOf(chosen.zone, set) = chosen.at

C23_Witness ==
    /\ chosen1.done
    /\ pvcName1 = <<>>
    /\ ZoneSet(zones1) = {"a", "b", "c"}
    /\ chosen1.zone = "b"
    /\ ZoneSet(zones2) = {"a", "b", "c"}
    /\ pvcName2 = <<"-", "2">>
    /\ chosen2.done

(***************************************************************************)
(* C27: with injected functions that answer every call alike, a            *)
(* GetConfZones call that directly follows a GetConfZones call on the same *)
(* ZonesConf returns what that call returned: the same zone set, or an     *)
(* error again, with an override and without one.  No GetConfZones call    *)
(* changes the cached set of all available zones.                          *)
(***************************************************************************)
C27_SecondCallSameOutcome ==
    [][lastOp' = "GetConfZones" =>
          /\ lastOp = "GetConfZones" =>
                IF retErr = NoErr
                THEN retErr' = NoErr /\ retZones' = retZones
                ELSE retErr' # NoErr
          /\ gotAllAvailableZones =>
                gotAllAvailableZones' /\ allAvailableZones' = allAvailableZones]_vars

\* a call that found the zones cached by an earlier call has returned the
\* set the selector permits, and the cached set is whole
C27_Witness ==
    /\ lastOp = "GetConfZones"
    /\ retErr = NoErr
    /\ PVC = Selector(NoLabels,
                      <<Expr(LabelZoneFailureDomain, LabelSelectorOpIn, {"a", "b"}),
                        Expr(LabelZoneFailureDomain, LabelSelectorOpIn, {"b", "c"})>>)
    /\ ~isSCZoneConfigured /\ ~isSCZonesConfigured
    /\ gotAllAvailableZones
    /\ getAllZonesCalls = 0
    /\ retZones = {"b"}
    /\ resultingZones = {"b"}
    /\ allAvailableZones = CloudZones

(***************************************************************************)
(* Vocabulary: GetConfZones with its six constraint passes applied in any  *)
(* order, and a selector with its matchExpressions list rearranged.  The   *)
(* passes are those of the code; order <<1, 2, 3, 4, 5, 6>> is the code's. *)
(***************************************************************************)
\* the sequences in which each element of the set stands once
RECURSIVE Arrangements(_)
Arrangements(set) ==
    IF set = {} THEN {<<>>}
    ELSE UNION { { <<x>> \o rest : rest \in Arrangements(set \ {x}) } : x \in set }

Orderings(n) == Arrangements(1..n)

PassOrders == Orderings(6)

Pass(k, s, pvc, env) ==
    IF s.err # NoErr THEN s
    ELSE CASE k = 1 -> [z |-> MatchLabelZone(s.z, pvc), err |-> NoErr]
           [] k = 2 -> MatchLabelRegion(s.z, pvc, env)
           [] k = 3 -> [z |-> MatchExpressionZoneIn(s.z, pvc), err |-> NoErr]
           [] k = 4 -> MatchExpressionRegionIn(s.z, pvc, env)
           [] k = 5 -> [z |-> MatchExpressionZoneNotIn(s.z, pvc), err |-> NoErr]
           [] k = 6 -> MatchExpressionRegionNotIn(s.z, pvc, env)

RECURSIVE ApplyPasses(_, _, _, _, _)
ApplyPasses(order, i, s, pvc, env) ==
    IF i > 6 THEN s
    ELSE ApplyPasses(order, i + 1, Pass(order[i], s, pvc, env), pvc, env)

GetConfZonesInOrder(z, pvc, env, v, order) ==
    LET s == IF ~z.isSCZoneConfigured /\ ~z.isSCZonesConfigured
             THEN AssignResultingZones(getAllAvailableZones(z, env))
             ELSE [z |-> z, err |-> NoErr]
    IN  IF s.err # NoErr THEN Return(s.z, {}, s.err)
        ELSE IF v.err # NoErr THEN Return(s.z, {}, v.err)
        ELSE IF v.empty THEN Return(s.z, s.z.resultingZones, NoErr)
        ELSE CheckNotEmpty(ApplyPasses(order, 1, [z |-> s.z, err |-> NoErr], pvc, env))

Rearranged(sel, f) ==
    [sel EXCEPT !.matchExpressions = [i \in 1..Len(@) |-> @[f[i]]]]

(***************************************************************************)
(* C28: when a GetConfZones call returns a zone set or the unsatisfiable   *)
(* error, the same call with the matchExpressions list in any other order, *)
(* and the same call with the six constraint passes applied in any other   *)
(* order, returns the same zone set or the unsatisfiable error as well.    *)
(***************************************************************************)
C28_OrderIndependent ==
    [][(lastOp' = "GetConfZones" /\ retErr' \in {NoErr, ErrNoZone}) =>
          \A env \in Answers(Z) :
              /\ \A f \in Orderings(Len(PVC.matchExpressions)) :
                    \A v \in validatePVCSelector(Rearranged(PVC, f)) :
                        LET r == GetConfZones(Z, Rearranged(PVC, f), env, v)
                        IN  r.err = retErr' /\ r.zones = retZones'
              /\ \A order \in PassOrders, v \in validatePVCSelector(PVC) :
                    LET r == GetConfZonesInOrder(Z, PVC, env, v, order)
                    IN  r.err = retErr' /\ r.zones = retZones']_vars

\* a label, an In and two NotIn constraints on zone and region have given
\* {b}, which no single pass leaves
C28_Witness ==
    /\ lastOp = "GetConfZones"
    /\ retErr = NoErr
    /\ PVC = Selector((LabelZoneRegion :> "r1"),
                      <<Expr(LabelZoneRegion, LabelSelectorOpNotIn, {"r2"}),
                        Expr(LabelZoneFailureDomain, LabelSelectorOpIn, {"b", "c", "d"}),
                        Expr(LabelZoneFailureDomain, LabelSelectorOpNotIn, {"a"})>>)
    /\ ~isSCZoneConfigured /\ ~isSCZonesConfigured
    /\ retZones = {"b"}

(***************************************************************************)
(* Vocabulary: the events that end the watch of the recycler pod           *)
(***************************************************************************)
Terminal(e) ==
    /\ e.object = "Pod"
    /\ \/ e.type \in {"DELETED", "ERROR"}
       \/ e.type \in {"ADDED", "MODIFIED"} /\ e.phase \in {"Succeeded", "Failed"}

PodSucceeded(e) ==
    e.object = "Pod" /\ e.type \in {"ADDED", "MODIFIED"} /\ e.phase = "Succeeded"

\* the calls the step has added to clientCalls
NewCalls == SubSeq(clientCalls', Len(clientCalls) + 1, Len(clientCalls'))

(***************************************************************************)
(* C22: every event the function reads while it watches the pod either     *)
(* ends the watch or does not: it returns exactly on a pod event of type   *)
(* Added or Modified with phase Succeeded or Failed, of type Deleted or of *)
(* type Error, so on the first such event; it returns nil exactly when     *)
(* that event says Succeeded and an error otherwise.  On a pod event in    *)
(* any other phase and on a v1.Event it goes on reading, and it calls      *)
(* Event on the recyclerClient exactly for a v1.Event of watch type Added. *)
(***************************************************************************)
C22_ReturnsOnFirstTerminalEvent ==
    [][eventsRead' = eventsRead + 1 =>
          /\ pc = "podCh"
          /\ pc' = IF Terminal(event') THEN "returned" ELSE "podCh"
          /\ Terminal(event') =>
                /\ recycleErr' = NoErr <=> PodSucceeded(event')
                /\ recycleErr' = Verdict(event')
          /\ (\E i \in 1..Len(NewCalls) : NewCalls[i].op = "Event")
                <=> (event'.object = "Event" /\ event'.type = "ADDED")]_vars

C22_Witness ==
    /\ pc = "returned"
    /\ eventsRead = 2
    /\ event = Event("Pod", "MODIFIED", "Succeeded", "")
    /\ recycleErr = NoErr
    /\ CallsOf("Event") # {}

(***************************************************************************)
(* C24: once stopChannel is closed, the goroutine that WatchPod started    *)
(* eventually exits, with eventCh closed and both watches stopped.         *)
(* Violated: the goroutine has taken an event from a watch and is at the   *)
(* send on the unbuffered eventCh when the function returns; the function  *)
(* receives no more, the send never completes, the select on stopChannel   *)
(* is never reached again and the deferred calls never run.                *)
(***************************************************************************)
C24_GoroutineExitsAfterStop ==
    (stopChannel = "closed" /\ goroutine # "none")
        ~> (/\ goroutine = "exited"
            /\ eventCh = "closed"
            /\ podWatch = "stopped"
            /\ eventWatch = "stopped")

(***************************************************************************)
(* C24, what the code does: once stopChannel is closed the goroutine       *)
(* eventually has exited or stays at the send on eventCh; and when it has  *)
(* exited, eventCh is closed and both watches are stopped.                 *)
(***************************************************************************)
C24_ExitsOrStaysInSend ==
    /\ (stopChannel = "closed" /\ goroutine # "none")
          ~> (goroutine = "exited" \/ [](goroutine = "send"))
    /\ [](goroutine = "exited" =>
             eventCh = "closed" /\ podWatch = "stopped" /\ eventWatch = "stopped")

(***************************************************************************)
(* C25: when eventCh is closed, or a pod event that ends the watch is      *)
(* being sent on it, while the function is running, the function           *)
(* eventually returns.  Violated: the receive from the closed eventCh      *)
(* yields the zero event, which is neither a *v1.Pod nor a *v1.Event, so   *)
(* the loop goes on receiving zero events for ever.                        *)
(***************************************************************************)
C25_ReturnsWhenChannelEnds ==
    (/\ pc \in {"CreatePod", "podCh"}
     /\ eventCh = "closed" \/ (goroutine = "send" /\ Terminal(sending)))
        ~> (pc = "returned")

(***************************************************************************)
(* C25, what the code does: the function returns when a pod event that     *)
(* ends the watch is being sent; once eventCh is closed it returns only    *)
(* out of CreatePod.                                                       *)
(***************************************************************************)
C25_ReturnsOnTerminalEvent ==
    /\ (pc \in {"CreatePod", "podCh"} /\ goroutine = "send" /\ Terminal(sending))
          ~> (pc = "returned")
    /\ [][(pc = "podCh" /\ eventCh = "closed") => pc' = "podCh"]_vars

====
